---- MODULE Spec2Model ----
(***************************************************************************)
(* Half-edge mesh core of plexus: the four keyed stores (vertices, arcs,   *)
(* edges, faces) and the face mutations of graph/mutation/face.rs          *)
(* (insert_face, remove, split, poke, bridge, extrude).                    *)
(*                                                                         *)
(* A Core value is the record                                              *)
(*   [v |-> number of vertex keys allocated (keys 1..v, never removed),    *)
(*    a |-> arc store: (source, destination) |-> Arc payload,              *)
(*    e |-> edge store: edge key |-> Edge payload; edges are never removed *)
(*          and their keys are opaque, so the edge of the arc pair         *)
(*          (a, b), (b, a) is named by the sorted vertex pair,             *)
(*    f |-> face store: live face key |-> Face payload,                    *)
(*    k |-> number of face keys allocated so far (keys are never reused)]  *)
(* Every operation is a function from a Core to the set of its possible    *)
(* outcomes; the set has more than one element only where the code         *)
(* iterates a captured candidate list whose order is unspecified.          *)
(***************************************************************************)
EXTENDS Integers, Sequences, FiniteSets, TLC

\* ---- bounds of the model ------------------------------------------------
MaxVerts == 6
MaxFaceKeys == 5
MaxArity == 4
MaxCalls == 7
MaxInputs == 3
MaxFan == 3
MaxApplications == 3
IsizeBits == 4
MaxTurns == 2

\* ---- absent keys (Option::None) -----------------------------------------
NoFace == 0
NoEdge == <<0, 0>>
NoArc == <<0, 0>>

\* ---- keys ---------------------------------------------------------------
\* The key that the edge store hands out for the edge of the arc (a, b).
EdgeKeyOf(ab) == IF ab[1] <= ab[2] THEN ab ELSE <<ab[2], ab[1]>>

\* ArcKey::into_opposite: the key (b, a) of the arc (a, b).
Opposite(k) == <<k[2], k[1]>>

\* IteratorExt::perimeter: consecutive pairs, wrapping to the first item.
Perimeter(s) == [i \in 1..Len(s) |-> <<s[i], s[(i % Len(s)) + 1]>>]

SeqRange(s) == {s[i] : i \in 1..Len(s)}

\* ---- payloads -----------------------------------------------------------
NewArc == [next |-> NoArc, previous |-> NoArc, face |-> NoFace, edge |-> NoEdge]

EmptyCore == [v |-> 0, a |-> <<>>, e |-> <<>>, f |-> <<>>, k |-> 0]

\* ---- results ------------------------------------------------------------
\* Ok(value) / Err(error) together with the Core as the call left it.
Res(c, err, val) == [core |-> c, err |-> err, val |-> val]

IsOk(r) == r.err = "Ok"

\* ---- views --------------------------------------------------------------
HasVertex(c, v) == v \in 1..c.v
HasArc(c, ab) == ab \in DOMAIN c.a
HasFace(c, f) == f \in DOMAIN c.f

\* ArcView::is_boundary_arc
IsBoundaryArc(c, ab) == c.a[ab].face = NoFace

\* ArcView::reachable_next_arc / reachable_previous_arc / reachable_opposite_arc
ReachableNext(c, ab) ==
    IF HasArc(c, ab) /\ HasArc(c, c.a[ab].next) THEN c.a[ab].next ELSE NoArc

ReachablePrevious(c, ab) ==
    IF HasArc(c, ab) /\ HasArc(c, c.a[ab].previous) THEN c.a[ab].previous ELSE NoArc

ReachableOpposite(c, ab) ==
    IF HasArc(c, ab) /\ HasArc(c, Opposite(ab)) THEN Opposite(ab) ELSE NoArc

\* VertexView::reachable_outgoing_arcs / reachable_incoming_arcs, as sets.
OutgoingArcs(c, v) == {ab \in DOMAIN c.a : ab[1] = v}
IncomingArcs(c, v) == {ab \in DOMAIN c.a : ab[2] = v}

\* The walk of an arc circulator: start, start.next, ... until the walk is
\* back at start or a link is missing.  acc is the walk so far, cur the arc
\* to yield next.  A walk that runs into a cycle not through start never
\* ends in the code; here it is cut when it has more steps than arcs exist.
RECURSIVE Circulate(_, _, _, _)
Circulate(c, start, cur, acc) ==
    LET acc2 == Append(acc, cur)
        nxt == IF HasArc(c, cur) THEN c.a[cur].next ELSE NoArc
    IN  IF nxt = start \/ nxt = NoArc \/ Len(acc2) > Cardinality(DOMAIN c.a)
        THEN acc2
        ELSE Circulate(c, start, nxt, acc2)

\* FaceView::interior_arcs
InteriorArcs(c, f) == Circulate(c, c.f[f].arc, c.f[f].arc, <<>>)

\* The circulation does not terminate.
Diverges(c, f) == Len(InteriorArcs(c, f)) > Cardinality(DOMAIN c.a)

\* FaceView::vertices: the source vertex of each interior arc.
FaceVertices(c, f) ==
    LET arcs == InteriorArcs(c, f) IN [i \in 1..Len(arcs) |-> arcs[i][1]]

\* FaceView::arity
Arity(c, f) == Len(InteriorArcs(c, f))

\* ---- vertex and edge mutation -------------------------------------------
\* VertexMutation::insert_vertex: a fresh vertex key.
InsertVertex(c) == Res([c EXCEPT !.v = @ + 1], "Ok", <<c.v + 1>>)

\* get_or_insert_arc: the arc's edge if the arc exists, else a new unlinked arc.
GetOrInsertArc(c, ab) ==
    IF HasArc(c, ab)
    THEN Res(c, "Ok", <<c.a[ab].edge>>)
    ELSE Res([c EXCEPT !.a = (ab :> NewArc) @@ @], "Ok", <<NoEdge>>)

\* EdgeMutation::get_or_insert_edge_with: the arc pair of (a, b), created
\* together with its edge when it does not exist.  The value is the arc ab.
GetOrInsertEdge(c, a, b) ==
    LET ab == <<a, b>>
        ba == <<b, a>>
        r1 == GetOrInsertArc(c, ab)
        r2 == GetOrInsertArc(r1.core, ba)
        e1 == r1.val[1]
        e2 == r2.val[1]
        c2 == r2.core
        ek == EdgeKeyOf(ab)
    IN  IF e1 # NoEdge /\ e1 = e2 THEN Res(c2, "Ok", ab)
        ELSE IF e1 = NoEdge /\ e2 = NoEdge
        THEN Res([c2 EXCEPT !.e = (ek :> [arc |-> ab]) @@ @,
                            !.a = [k \in DOMAIN @ |->
                                     IF k \in {ab, ba} THEN [@[k] EXCEPT !.edge = ek]
                                                       ELSE @[k]]],
                 "Ok", ab)
        ELSE Res(c2, "TopologyMalformed", NoArc)

\* EdgeMutation::connect_neighboring_arcs: ab.next = bc, bc.previous = ab.
ConnectNeighboringArcs(c, ab, bc) ==
    IF ~HasArc(c, ab) THEN Res(c, "TopologyNotFound", <<>>)
    ELSE LET c1 == [c EXCEPT !.a[ab].next = bc]
         IN  IF ~HasArc(c1, bc) THEN Res(c1, "TopologyNotFound", <<>>)
             ELSE Res([c1 EXCEPT !.a[bc].previous = ab], "Ok", <<>>)

\* EdgeMutation::connect_arc_to_face
ConnectArcToFace(c, ab, f) ==
    IF ~HasArc(c, ab) THEN Res(c, "TopologyNotFound", <<>>)
    ELSE Res([c EXCEPT !.a[ab].face = f], "Ok", <<>>)

\* EdgeMutation::disconnect_arc_from_face
DisconnectArcFromFace(c, ab) ==
    IF ~HasArc(c, ab) THEN Res(c, "TopologyNotFound", <<>>)
    ELSE Res([c EXCEPT !.a[ab].face = NoFace], "Ok", <<>>)

\* ---- FaceInsertCache ----------------------------------------------------
\* The occupancy and bisection checks over the windows of the proposed ring
\* that do not wrap: the arc (vn, v1) is never the previous arc of a window.
InsertConflictNoWrap(c, keys) ==
    LET pairs == Perimeter(Perimeter(keys))
    IN  \E i \in 1..(Len(pairs) - 1) :
            LET previous == pairs[i][1]
                next == pairs[i][2]
            IN  /\ HasArc(c, previous)
                /\ \/ c.a[previous].face # NoFace
                   \/ /\ ~HasArc(c, next)
                      /\ ReachableNext(c, previous) # NoArc
                      /\ ReachableNext(c, previous)[2] \in SeqRange(keys)

\* The occupancy and bisection checks over the proposed ring.
InsertConflict(c, keys) ==
    LET pairs == Perimeter(Perimeter(keys))
    IN  \E i \in 1..Len(pairs) :
            LET previous == pairs[i][1]
                next == pairs[i][2]
            IN  /\ HasArc(c, previous)
                /\ \/ c.a[previous].face # NoFace
                   \/ /\ ~HasArc(c, next)
                      /\ ReachableNext(c, previous) # NoArc
                      /\ ReachableNext(c, previous)[2] \in SeqRange(keys)

\* The snapshot with the occupancy and bisection checks ahead of the vertex
\* existence check.
InsertSnapshotConflictFirst(c, keys) ==
    IF Cardinality(SeqRange(keys)) # Len(keys) THEN "TopologyMalformed"
    ELSE IF InsertConflict(c, keys) THEN "TopologyConflict"
    ELSE IF \E i \in 1..Len(keys) : ~HasVertex(c, keys[i]) THEN "TopologyNotFound"
    ELSE "Ok"

\* The snapshot with the vertex existence check ahead of the duplicate check.
InsertSnapshotVerticesFirst(c, keys) ==
    IF \E i \in 1..Len(keys) : ~HasVertex(c, keys[i]) THEN "TopologyNotFound"
    ELSE IF Cardinality(SeqRange(keys)) # Len(keys) THEN "TopologyMalformed"
    ELSE IF InsertConflict(c, keys) THEN "TopologyConflict"
    ELSE "Ok"

\* The snapshot that misses a vertex only when none of the keys is live.
InsertSnapshotAnyVertex(c, keys) ==
    IF Cardinality(SeqRange(keys)) # Len(keys) THEN "TopologyMalformed"
    ELSE IF \A i \in 1..Len(keys) : ~HasVertex(c, keys[i]) THEN "TopologyNotFound"
    ELSE IF InsertConflict(c, keys) THEN "TopologyConflict"
    ELSE "Ok"

\* FaceInsertCache::snapshot: the error it returns, "Ok" when it returns a cache.
InsertSnapshot(c, keys) ==
    IF Cardinality(SeqRange(keys)) # Len(keys) THEN "TopologyMalformed"
    ELSE IF \E i \in 1..Len(keys) : ~HasVertex(c, keys[i]) THEN "TopologyNotFound"
    ELSE IF InsertConflict(c, keys) THEN "TopologyConflict"
    ELSE "Ok"

\* The connectivity captured by the snapshot: (incoming, outgoing) per vertex.
Connectivity(c, keys) ==
    [incoming |-> [v \in SeqRange(keys) |-> IncomingArcs(c, v)],
     outgoing |-> [v \in SeqRange(keys) |-> OutgoingArcs(c, v)]]

\* ---- FaceMutation -------------------------------------------------------
\* The edge loop of insert_face_with_cache: pairs[i..] are still to insert,
\* arcs are the interior arcs collected so far; stops at the first error.
RECURSIVE InsertEdges(_, _, _, _)
InsertEdges(c, pairs, i, arcs) ==
    IF i > Len(pairs) THEN Res(c, "Ok", arcs)
    ELSE LET r == GetOrInsertEdge(c, pairs[i][1], pairs[i][2])
         IN  IF IsOk(r) THEN InsertEdges(r.core, pairs, i + 1, Append(arcs, r.val))
             ELSE Res(r.core, r.err, arcs)

\* connect_face_interior over the windows of the arcs that do not wrap: the
\* last arc is not linked to the first and gets no face.
RECURSIVE ConnectFaceInteriorNoWrap(_, _, _, _)
ConnectFaceInteriorNoWrap(c, arcs, face, i) ==
    IF i >= Len(arcs) THEN Res(c, "Ok", <<>>)
    ELSE LET ab == arcs[i]
             bc == arcs[i + 1]
             r1 == ConnectNeighboringArcs(c, ab, bc)
             r2 == ConnectArcToFace(r1.core, ab, face)
         IN  IF ~IsOk(r1) THEN r1
             ELSE IF ~IsOk(r2) THEN r2
             ELSE ConnectFaceInteriorNoWrap(r2.core, arcs, face, i + 1)

\* FaceMutation::connect_face_interior
RECURSIVE ConnectFaceInterior(_, _, _, _)
ConnectFaceInterior(c, arcs, face, i) ==
    IF i > Len(arcs) THEN Res(c, "Ok", <<>>)
    ELSE LET ab == arcs[i]
             bc == arcs[(i % Len(arcs)) + 1]
             r1 == ConnectNeighboringArcs(c, ab, bc)
             r2 == ConnectArcToFace(r1.core, ab, face)
         IN  IF ~IsOk(r1) THEN r1
             ELSE IF ~IsOk(r2) THEN r2
             ELSE ConnectFaceInterior(r2.core, arcs, face, i + 1)

\* disconnect_face_interior that stops before the last arc.
RECURSIVE DisconnectFaceInteriorShort(_, _, _)
DisconnectFaceInteriorShort(c, arcs, i) ==
    IF i >= Len(arcs) THEN Res(c, "Ok", <<>>)
    ELSE LET r == DisconnectArcFromFace(c, arcs[i])
         IN  IF IsOk(r) THEN DisconnectFaceInteriorShort(r.core, arcs, i + 1) ELSE r

\* FaceMutation::disconnect_face_interior
RECURSIVE DisconnectFaceInterior(_, _, _)
DisconnectFaceInterior(c, arcs, i) ==
    IF i > Len(arcs) THEN Res(c, "Ok", <<>>)
    ELSE LET r == DisconnectArcFromFace(c, arcs[i])
         IN  IF IsOk(r) THEN DisconnectFaceInterior(r.core, arcs, i + 1) ELSE r

\* The candidates for ax when the outgoing arcs of a are read from the Core
\* at the time of the repair and not from the captured list.
ExteriorNextLive(c, ab, conn) ==
    LET found == {ax \in OutgoingArcs(c, ab[1]) : HasArc(c, ax) /\ IsBoundaryArc(c, ax)}
        other == ReachableOpposite(c, ReachablePrevious(c, ab))
    IN  IF found # {} THEN found ELSE {other} \ {NoArc}

\* The candidates for ax of connect_face_exterior: every boundary arc of the
\* captured outgoing list of a can come first in it; without one, the opposite
\* of the previous arc of ab.
ExteriorNext(c, ab, conn) ==
    LET found == {ax \in conn.outgoing[ab[1]] : HasArc(c, ax) /\ IsBoundaryArc(c, ax)}
        other == ReachableOpposite(c, ReachablePrevious(c, ab))
    IN  IF found # {} THEN found ELSE {other} \ {NoArc}

\* The candidates for xb taken from the captured outgoing list of b.
ExteriorPreviousOutgoing(c, ab, conn) ==
    LET found == {xb \in conn.outgoing[ab[2]] : HasArc(c, xb) /\ IsBoundaryArc(c, xb)}
        other == ReachableOpposite(c, ReachableNext(c, ab))
    IN  IF found # {} THEN found ELSE {other} \ {NoArc}

\* The candidates for xb: a boundary arc of the captured incoming list of b,
\* else the opposite of the next arc of ab.
ExteriorPrevious(c, ab, conn) ==
    LET found == {xb \in conn.incoming[ab[2]] : HasArc(c, xb) /\ IsBoundaryArc(c, xb)}
        other == ReachableOpposite(c, ReachableNext(c, ab))
    IN  IF found # {} THEN found ELSE {other} \ {NoArc}

\* One iteration of the loop of connect_face_exterior that links ba to ax
\* and leaves xb as it is.
ConnectExteriorArcNextOnly(c, ab, conn) ==
    LET ba == Opposite(ab)
    IN  IF ~HasArc(c, ba) THEN {Res(c, "TopologyMalformed", <<>>)}
        ELSE IF ~IsBoundaryArc(c, ba) THEN {Res(c, "Ok", <<>>)}
        ELSE LET axs == ExteriorNext(c, ab, conn)
                 xbs == ExteriorPrevious(c, ab, conn)
             IN  IF axs = {} \/ xbs = {} THEN {Res(c, "Ok", <<>>)}
                 ELSE {ConnectNeighboringArcs(c, ba, n[1]) : n \in axs \X xbs}

\* One iteration of the loop of connect_face_exterior, for the interior arc ab.
ConnectExteriorArc(c, ab, conn) ==
    LET ba == Opposite(ab)
    IN  IF ~HasArc(c, ba) THEN {Res(c, "TopologyMalformed", <<>>)}
        ELSE IF ~IsBoundaryArc(c, ba) THEN {Res(c, "Ok", <<>>)}
        ELSE LET axs == ExteriorNext(c, ab, conn)
                 xbs == ExteriorPrevious(c, ab, conn)
             IN  IF axs = {} \/ xbs = {} THEN {Res(c, "Ok", <<>>)}
                 ELSE {LET r1 == ConnectNeighboringArcs(c, ba, n[1])
                       IN  IF IsOk(r1) THEN ConnectNeighboringArcs(r1.core, n[2], ba)
                           ELSE r1 : n \in axs \X xbs}

\* FaceMutation::connect_face_exterior: the outcomes of the loop from arcs[i].
RECURSIVE ConnectFaceExterior(_, _, _, _)
ConnectFaceExterior(c, arcs, conn, i) ==
    IF i > Len(arcs) THEN {Res(c, "Ok", <<>>)}
    ELSE UNION {IF IsOk(r) THEN ConnectFaceExterior(r.core, arcs, conn, i + 1) ELSE {r} :
                    r \in ConnectExteriorArc(c, arcs[i], conn)}

\* The Cores in which iteration j of the loop of connect_face_exterior can
\* start, when iteration i starts in c.
RECURSIVE ExteriorCores(_, _, _, _, _)
ExteriorCores(c, arcs, conn, i, j) ==
    IF i >= j THEN {c}
    ELSE UNION {ExteriorCores(r.core, arcs, conn, i + 1, j) :
                    r \in {x \in ConnectExteriorArc(c, arcs[i], conn) : IsOk(x)}}

\* insert_face_with_cache up to the end of connect_face_interior; the value
\* is the interior arcs of the new face.
InteriorLinked(c, keys) ==
    LET r1 == InsertEdges(c, Perimeter(keys), 1, <<>>)
        arcs == r1.val
        face == r1.core.k + 1
        c2 == [r1.core EXCEPT !.k = face, !.f = (face :> [arc |-> arcs[1]]) @@ @]
        r3 == ConnectFaceInterior(c2, arcs, face, 1)
    IN  IF ~IsOk(r1) THEN Res(r1.core, r1.err, <<>>)
        ELSE IF arcs = <<>> THEN Res(r1.core, "Panic", <<>>)
        ELSE Res(r3.core, r3.err, arcs)

\* insert_face_with_cache on a face store that hands out the least key that
\* is not live: the key of a removed face is handed out again.
InsertFaceWithCacheReusingKeys(c, keys, conn) ==
    LET r1 == InsertEdges(c, Perimeter(keys), 1, <<>>)
        arcs == r1.val
        free == {k \in 1..(r1.core.k + 1) : k \notin DOMAIN r1.core.f}
        face == CHOOSE k \in free : \A j \in free : k <= j
        top == IF face > r1.core.k THEN face ELSE r1.core.k
        c2 == [r1.core EXCEPT !.k = top, !.f = (face :> [arc |-> arcs[1]]) @@ @]
        r3 == ConnectFaceInterior(c2, arcs, face, 1)
    IN  IF ~IsOk(r1) THEN {Res(r1.core, r1.err, <<>>)}
        ELSE IF arcs = <<>> THEN {Res(r1.core, "Panic", <<>>)}
        ELSE IF ~IsOk(r3) THEN {r3}
        ELSE {Res(r.core, r.err, IF IsOk(r) THEN <<face>> ELSE <<>>) :
                  r \in ConnectFaceExterior(r3.core, arcs, conn, 1)}

\* FaceMutation::insert_face_with_cache; the value is the key of the new face.
InsertFaceWithCache(c, keys, conn) ==
    LET r1 == InsertEdges(c, Perimeter(keys), 1, <<>>)
        arcs == r1.val
        face == r1.core.k + 1
        c2 == [r1.core EXCEPT !.k = face, !.f = (face :> [arc |-> arcs[1]]) @@ @]
        r3 == ConnectFaceInterior(c2, arcs, face, 1)
    IN  IF ~IsOk(r1) THEN {Res(r1.core, r1.err, <<>>)}
        ELSE IF arcs = <<>> THEN {Res(r1.core, "Panic", <<>>)}
        ELSE IF ~IsOk(r3) THEN {r3}
        ELSE {Res(r.core, r.err, IF IsOk(r) THEN <<face>> ELSE <<>>) :
                  r \in ConnectFaceExterior(r3.core, arcs, conn, 1)}

\* insert_face that runs the edge loop before it looks at the snapshot's
\* verdict: a refused call has already written the arcs and edges of the ring.
InsertFaceWriteFirst(c, keys) ==
    LET error == InsertSnapshot(c, keys)
        written == InsertEdges(c, Perimeter(keys), 1, <<>>)
    IN  IF error # "Ok" THEN {Res(written.core, error, <<>>)}
        ELSE InsertFaceWithCache(c, keys, Connectivity(c, keys))

\* FaceMutation::insert_face
InsertFace(c, keys) ==
    LET error == InsertSnapshot(c, keys)
    IN  IF error # "Ok" THEN {Res(c, error, <<>>)}
        ELSE InsertFaceWithCache(c, keys, Connectivity(c, keys))

\* ---- FaceRemoveCache and remove_with_cache ------------------------------
\* FaceRemoveCache::snapshot: the face key with its interior arcs.
RemoveSnapshot(c, abc) ==
    IF ~HasFace(c, abc) THEN Res(c, "TopologyNotFound", <<>>)
    ELSE IF Diverges(c, abc) THEN Res(c, "Hang", <<>>)
    ELSE Res(c, "Ok", [abc |-> abc, arcs |-> InteriorArcs(c, abc)])

\* remove_with_cache that drops the face without disconnecting its interior
\* arcs: the arcs keep naming the removed face.
RemoveWithCacheKeepingArcs(c, cache) ==
    IF ~HasFace(c, cache.abc) THEN Res(c, "TopologyNotFound", <<>>)
    ELSE Res([c EXCEPT !.f = [k \in DOMAIN @ \ {cache.abc} |-> @[k]]],
             "Ok", <<c.f[cache.abc]>>)

\* remove_with_cache that also sweeps the interior arcs of the face out of
\* the arc store, leaving their opposites behind.
RemoveWithCacheSweeping(c, cache) ==
    LET r == DisconnectFaceInterior(c, cache.arcs, 1)
    IN  IF ~IsOk(r) THEN r
        ELSE IF ~HasFace(r.core, cache.abc) THEN Res(r.core, "TopologyNotFound", <<>>)
        ELSE Res([r.core EXCEPT !.f = [k \in DOMAIN @ \ {cache.abc} |-> @[k]],
                                !.a = [k \in DOMAIN @ \ SeqRange(cache.arcs) |-> @[k]]],
                 "Ok", <<r.core.f[cache.abc]>>)

\* remove_with_cache; the value is the payload of the removed face.
RemoveWithCache(c, cache) ==
    LET r == DisconnectFaceInterior(c, cache.arcs, 1)
    IN  IF ~IsOk(r) THEN r
        ELSE IF ~HasFace(r.core, cache.abc) THEN Res(r.core, "TopologyNotFound", <<>>)
        ELSE Res([r.core EXCEPT !.f = [k \in DOMAIN @ \ {cache.abc} |-> @[k]]],
                 "Ok", <<r.core.f[cache.abc]>>)

\* remove_face: snapshot, then remove_with_cache.
RemoveFace(c, abc) ==
    LET s == RemoveSnapshot(c, abc)
    IN  IF IsOk(s) THEN {RemoveWithCache(c, s.val)} ELSE {s}

\* ---- FaceSplitCache and split_with_cache --------------------------------
Min(x, y) == IF x <= y THEN x ELSE y

IndexOf(s, x) == CHOOSE i \in 1..Len(s) : s[i] = x /\ \A j \in 1..(i - 1) : s[j] # x

\* Ring::distance: the hop count between the two vertices along the ring
\* (at most 1 exactly when they are equal or adjacent), 0 - 1 when either
\* vertex is not on the ring.
RingDistance(ring, source, destination) ==
    IF source \notin SeqRange(ring) \/ destination \notin SeqRange(ring) THEN 0 - 1
    ELSE LET i == IndexOf(ring, source)
             j == IndexOf(ring, destination)
             difference == IF i >= j THEN i - j ELSE j - i
         IN  Min(difference, Len(ring) - difference)

\* The vertex path that keeps a of each window (a, b) instead of b.
SplitPathSources(ring, from, to) ==
    LET n == Len(ring)
        R(i) == ring[((i - 1) % n) + 1]
        i0 == CHOOSE i \in 1..n : R(i + 1) = from /\ \A j \in 1..(i - 1) : R(j + 1) # from
        i1 == CHOOSE i \in i0..(i0 + n) : R(i) = to /\ \A j \in i0..(i - 1) : R(j) # to
    IN  [j \in 1..(i1 - i0) |-> R(i0 + j - 1)]

\* The vertex path of FaceSplitCache::snapshot: over the windows (a, b) of the
\* cycled ring, skip while b # from, take while a # to, keep b.
SplitPath(ring, from, to) ==
    LET n == Len(ring)
        R(i) == ring[((i - 1) % n) + 1]
        i0 == CHOOSE i \in 1..n : R(i + 1) = from /\ \A j \in 1..(i - 1) : R(j + 1) # from
        i1 == CHOOSE i \in i0..(i0 + n) : R(i) = to /\ \A j \in i0..(i - 1) : R(j) # to
    IN  [j \in 1..(i1 - i0) |-> R(i0 + j)]

\* FaceSplitCache::snapshot that rejects a distance of 0 only.
SplitSnapshotEqualOnly(c, abc, source, destination) ==
    IF ~HasFace(c, abc) THEN Res(c, "TopologyNotFound", <<>>)
    ELSE IF Diverges(c, abc) THEN Res(c, "Hang", <<>>)
    ELSE LET ring == FaceVertices(c, abc)
             distance == RingDistance(ring, source, destination)
         IN  IF distance < 0 THEN Res(c, "TopologyNotFound", <<>>)
             ELSE IF distance < 1 THEN Res(c, "TopologyMalformed", <<>>)
             ELSE Res(c, "Ok", [cache |-> RemoveSnapshot(c, abc).val,
                                left |-> SplitPath(ring, source, destination),
                                right |-> SplitPath(ring, destination, source)])

\* FaceSplitCache::snapshot
SplitSnapshot(c, abc, source, destination) ==
    IF ~HasFace(c, abc) THEN Res(c, "TopologyNotFound", <<>>)
    ELSE IF Diverges(c, abc) THEN Res(c, "Hang", <<>>)
    ELSE LET ring == FaceVertices(c, abc)
             distance == RingDistance(ring, source, destination)
         IN  IF distance < 0 THEN Res(c, "TopologyNotFound", <<>>)
             ELSE IF distance <= 1 THEN Res(c, "TopologyMalformed", <<>>)
             ELSE Res(c, "Ok", [cache |-> RemoveSnapshot(c, abc).val,
                                left |-> SplitPath(ring, source, destination),
                                right |-> SplitPath(ring, destination, source)])

\* split_with_cache that inserts the left face only.
SplitWithCacheLeftOnly(c, cache) ==
    LET r1 == RemoveWithCache(c, cache.cache)
    IN  IF ~IsOk(r1) THEN {r1}
        ELSE {IF IsOk(r2) THEN Res(r2.core, "Ok", <<cache.left[1], cache.right[1]>>)
                          ELSE r2 : r2 \in InsertFace(r1.core, cache.left)}

\* split_with_cache; the value is the arc key (left[0], right[0]).
SplitWithCache(c, cache) ==
    LET r1 == RemoveWithCache(c, cache.cache)
    IN  IF ~IsOk(r1) THEN {r1}
        ELSE UNION {IF ~IsOk(r2) THEN {r2}
                    ELSE {IF IsOk(r3) THEN Res(r3.core, "Ok", <<cache.left[1], cache.right[1]>>)
                                      ELSE r3 : r3 \in InsertFace(r2.core, cache.right)} :
                        r2 \in InsertFace(r1.core, cache.left)}

\* split_face: snapshot, then split_with_cache.
SplitFace(c, abc, source, destination) ==
    LET s == SplitSnapshot(c, abc, source, destination)
    IN  IF IsOk(s) THEN SplitWithCache(c, s.val) ELSE {s}

\* ---- FacePokeCache and poke_with_cache ----------------------------------
\* FacePokeCache::snapshot
PokeSnapshot(c, abc) ==
    IF ~HasFace(c, abc) THEN Res(c, "TopologyNotFound", <<>>)
    ELSE IF Diverges(c, abc) THEN Res(c, "Hang", <<>>)
    ELSE Res(c, "Ok", [vertices |-> FaceVertices(c, abc),
                       cache |-> RemoveSnapshot(c, abc).val])

\* The loop of poke_with_cache: a triangle (a, b, center) per pairs[i..].
RECURSIVE PokeTriangles(_, _, _, _)
PokeTriangles(c, pairs, center, i) ==
    IF i > Len(pairs) THEN {Res(c, "Ok", <<center>>)}
    ELSE UNION {IF IsOk(r) THEN PokeTriangles(r.core, pairs, center, i + 1) ELSE {r} :
                    r \in InsertFace(c, <<pairs[i][1], pairs[i][2], center>>)}

\* poke_with_cache over the windows of the ring without the closing pair.
PokeWithCacheOpenFan(c, cache) ==
    LET r1 == RemoveWithCache(c, cache.cache)
        r2 == InsertVertex(r1.core)
        pairs == [i \in 1..(Len(cache.vertices) - 1) |->
                      <<cache.vertices[i], cache.vertices[i + 1]>>]
    IN  IF ~IsOk(r1) THEN {r1}
        ELSE PokeTriangles(r2.core, pairs, r2.val[1], 1)

\* poke_with_cache; the value is the key of the new vertex.
PokeWithCache(c, cache) ==
    LET r1 == RemoveWithCache(c, cache.cache)
        r2 == InsertVertex(r1.core)
    IN  IF ~IsOk(r1) THEN {r1}
        ELSE PokeTriangles(r2.core, Perimeter(cache.vertices), r2.val[1], 1)

\* poke_face: snapshot, then poke_with_cache.
PokeFace(c, abc) ==
    LET s == PokeSnapshot(c, abc)
    IN  IF IsOk(s) THEN PokeWithCache(c, s.val) ELSE {s}

\* ---- FaceBridgeCache and bridge_with_cache ------------------------------
Reverse(s) == [i \in 1..Len(s) |-> s[Len(s) + 1 - i]]

\* FaceBridgeCache::snapshot without the comparison of arities.
BridgeSnapshotAnyArity(c, source, destination) ==
    LET s1 == RemoveSnapshot(c, source)
        s2 == RemoveSnapshot(c, destination)
    IN  IF ~IsOk(s1) THEN s1
        ELSE IF ~IsOk(s2) THEN s2
        ELSE Res(c, "Ok", [source |-> InteriorArcs(c, source),
                           destination |-> InteriorArcs(c, destination),
                           cache |-> <<s1.val, s2.val>>])

\* FaceBridgeCache::snapshot
BridgeSnapshot(c, source, destination) ==
    LET s1 == RemoveSnapshot(c, source)
        s2 == RemoveSnapshot(c, destination)
    IN  IF ~IsOk(s1) THEN s1
        ELSE IF ~IsOk(s2) THEN s2
        ELSE IF Arity(c, source) # Arity(c, destination)
        THEN Res(c, "ArityNonUniform", <<>>)
        ELSE Res(c, "Ok", [source |-> InteriorArcs(c, source),
                           destination |-> InteriorArcs(c, destination),
                           cache |-> <<s1.val, s2.val>>])

\* ArcBridgeCache::snapshot followed by edge::bridge_with_cache: the
\* quadrilateral (a, b, c, d) over the boundary arcs ab and cd.
BridgeArcs(c, ab, cd) ==
    IF ~HasArc(c, ab) \/ ~HasArc(c, cd) THEN {Res(c, "TopologyNotFound", <<>>)}
    ELSE IF ~IsBoundaryArc(c, ab) \/ ~IsBoundaryArc(c, cd)
    THEN {Res(c, "TopologyConflict", <<>>)}
    ELSE InsertFace(c, <<ab[1], ab[2], cd[1], cd[2]>>)

\* The loop of bridge_with_cache over source zipped with destination reversed.
RECURSIVE BridgeQuads(_, _, _, _)
BridgeQuads(c, source, destination, i) ==
    IF i > Min(Len(source), Len(destination)) THEN {Res(c, "Ok", <<>>)}
    ELSE UNION {IF IsOk(r) THEN BridgeQuads(r.core, source, destination, i + 1) ELSE {r} :
                    r \in BridgeArcs(c, source[i], destination[i])}

\* bridge_with_cache that pairs the arcs of both faces in ring order.
BridgeWithCacheForward(c, cache) ==
    LET r1 == RemoveWithCache(c, cache.cache[1])
        r2 == RemoveWithCache(r1.core, cache.cache[2])
    IN  IF ~IsOk(r1) THEN {r1}
        ELSE IF ~IsOk(r2) THEN {r2}
        ELSE BridgeQuads(r2.core, cache.source, cache.destination, 1)

\* bridge_with_cache
BridgeWithCache(c, cache) ==
    LET r1 == RemoveWithCache(c, cache.cache[1])
        r2 == RemoveWithCache(r1.core, cache.cache[2])
    IN  IF ~IsOk(r1) THEN {r1}
        ELSE IF ~IsOk(r2) THEN {r2}
        ELSE BridgeQuads(r2.core, cache.source, Reverse(cache.destination), 1)

\* bridge_faces: snapshot, then bridge_with_cache.
BridgeFaces(c, source, destination) ==
    LET s == BridgeSnapshot(c, source, destination)
    IN  IF IsOk(s) THEN BridgeWithCache(c, s.val) ELSE {s}

\* ---- FaceExtrudeCache and extrude_with_cache ----------------------------
\* FaceExtrudeCache::snapshot
ExtrudeSnapshot(c, abc) ==
    LET s == RemoveSnapshot(c, abc)
    IN  IF ~IsOk(s) THEN s
        ELSE Res(c, "Ok", [sources |-> FaceVertices(c, abc), cache |-> s.val])

\* The loop of extrude_with_cache: the quadrilateral (a, b, d, c) for each
\* ((a, c), (b, d)) of the perimeter of sources zipped with destinations.
RECURSIVE ExtrudeQuads(_, _, _, _)
ExtrudeQuads(c, pairs, extrusion, i) ==
    IF i > Len(pairs) THEN {Res(c, "Ok", <<extrusion>>)}
    ELSE UNION {IF IsOk(r) THEN ExtrudeQuads(r.core, pairs, extrusion, i + 1) ELSE {r} :
                    r \in InsertFace(c, <<pairs[i][1][1], pairs[i][2][1],
                                          pairs[i][2][2], pairs[i][1][2]>>)}

\* extrude_with_cache over the windows of the ring without the closing pair.
ExtrudeWithCacheOpen(c, cache) ==
    LET r1 == RemoveWithCache(c, cache.cache)
        n == Len(cache.sources)
        c2 == [r1.core EXCEPT !.v = @ + n]
        destinations == [i \in 1..n |-> r1.core.v + i]
        zipped == [i \in 1..n |-> <<cache.sources[i], destinations[i]>>]
        windows == [i \in 1..(n - 1) |-> <<zipped[i], zipped[i + 1]>>]
    IN  IF ~IsOk(r1) THEN {r1}
        ELSE UNION {IF IsOk(r) THEN ExtrudeQuads(r.core, windows, r.val[1], 1)
                    ELSE {r} : r \in InsertFace(c2, destinations)}

\* extrude_with_cache that inserts the side quadrilaterals only.
ExtrudeWithCacheNoTop(c, cache) ==
    LET r1 == RemoveWithCache(c, cache.cache)
        n == Len(cache.sources)
        c2 == [r1.core EXCEPT !.v = @ + n]
        destinations == [i \in 1..n |-> r1.core.v + i]
        zipped == [i \in 1..n |-> <<cache.sources[i], destinations[i]>>]
    IN  IF ~IsOk(r1) THEN {r1}
        ELSE ExtrudeQuads(c2, Perimeter(zipped), NoFace, 1)

\* extrude_with_cache; the value is the key of the extruded face.
ExtrudeWithCache(c, cache) ==
    LET r1 == RemoveWithCache(c, cache.cache)
        n == Len(cache.sources)
        c2 == [r1.core EXCEPT !.v = @ + n]
        destinations == [i \in 1..n |-> r1.core.v + i]
        zipped == [i \in 1..n |-> <<cache.sources[i], destinations[i]>>]
    IN  IF ~IsOk(r1) THEN {r1}
        ELSE UNION {IF IsOk(r) THEN ExtrudeQuads(r.core, Perimeter(zipped), r.val[1], 1)
                    ELSE {r} : r \in InsertFace(c2, destinations)}

\* extrude_face: snapshot, then extrude_with_cache.
ExtrudeFace(c, abc) ==
    LET s == ExtrudeSnapshot(c, abc)
    IN  IF IsOk(s) THEN ExtrudeWithCache(c, s.val) ELSE {s}

\* ---- primitive::decompose -----------------------------------------------
\* An item of a polygon stream is the sequence <<i, j1, .., jm>>: the j1-th
\* item of f applied to the i-th input of the stream, then the j2-th item of
\* f applied to that, and so on; m is the number of applications of f that
\* made it.  The function f of a Decompose is given by the number of items
\* that it yields for an item, which depends on the last entry of the item.
Items(f, ngon) == [j \in 1..f[ngon[Len(ngon)]] |-> Append(ngon, j)]

Labels == 1..(IF MaxInputs >= MaxFan THEN MaxInputs ELSE MaxFan)

Functions == [Labels -> 0..MaxFan]

\* ngons.into_iter().flat_map(&f).collect()
RECURSIVE FlatMap(_, _)
FlatMap(f, ngons) ==
    IF ngons = <<>> THEN <<>>
    ELSE Items(f, Head(ngons)) \o FlatMap(f, Tail(ngons))

\* The function remap: f applied n times to every item of ngons.
RECURSIVE Remap(_, _, _)
Remap(n, ngons, f) ==
    IF n = 0 THEN ngons ELSE Remap(n - 1, FlatMap(f, ngons), f)

\* VecDeque::into_iter().rev()
Rev(s) == [i \in 1..Len(s) |-> s[Len(s) + 1 - i]]

\* Decompose::new
DecomposeNew(input, f) == [input |-> input, output |-> <<>>, f |-> f]

\* <Decompose as Iterator>::next that gives up at the first input for which
\* f yields nothing.
DecomposeNextNoLoop(d) ==
    IF d.output # <<>>
    THEN [d |-> [d EXCEPT !.output = Tail(@)], item |-> <<Head(d.output)>>]
    ELSE IF d.input # <<>>
    THEN LET out == Items(d.f, Head(d.input))
         IN  IF out = <<>>
             THEN [d |-> [d EXCEPT !.input = Tail(@)], item |-> <<>>]
             ELSE [d |-> [d EXCEPT !.input = Tail(@), !.output = Tail(out)],
                   item |-> <<Head(out)>>]
    ELSE [d |-> d, item |-> <<>>]

\* <Decompose as Iterator>::next: the Decompose afterwards and the item
\* returned, <<>> for None.
RECURSIVE DecomposeNext(_)
DecomposeNext(d) ==
    IF d.output # <<>>
    THEN [d |-> [d EXCEPT !.output = Tail(@)], item |-> <<Head(d.output)>>]
    ELSE IF d.input # <<>>
    THEN DecomposeNext([d EXCEPT !.input = Tail(@),
                                 !.output = @ \o Items(d.f, Head(d.input))])
    ELSE [d |-> d, item |-> <<>>]

\* Decompose::remap
DecomposeRemap(d, n) ==
    DecomposeNew(Rev(d.output) \o Remap(n, d.input, d.f), d.f)

\* The items that a Decompose yields from now on.
Stream(d) == d.output \o FlatMap(d.f, d.input)

\* The most applications of f behind an item that the Decompose holds.
RECURSIVE Applications(_)
Applications(ngons) ==
    IF ngons = <<>> THEN 0
    ELSE LET rest == Applications(Tail(ngons))
             here == Len(Head(ngons)) - 1
         IN  IF here >= rest THEN here ELSE rest

\* No polygon stream is being decomposed.
NoStream == <<>>

\* ---- generate::topology -------------------------------------------------
\* isize, IsizeBits wide.
Isize == (0 - 2^(IsizeBits - 1))..(2^(IsizeBits - 1) - 1)

\* n % m on isize for m > 0: the remainder has the sign of n.
Rem(n, m) == IF n >= 0 THEN n % m ELSE 0 - ((0 - n) % m)

\* umod without the second reduction: the remainder of n, negative for
\* negative n.
UmodRemainder(n, m) == Rem(n, m)

\* umod
Umod(n, m) == Rem(Rem(n, m) + m, m)

\* mem::swap of the fields i and j of a primitive (a, b, c, d are 1..4).
Swap(p, i, j) == [p EXCEPT ![i] = p[j], ![j] = p[i]]

\* <Line as Rotate>::rotate
LineRotate(p, n) == IF Rem(n, 2) # 0 THEN Swap(p, 1, 2) ELSE p

\* <Triangle as Rotate>::rotate
TriangleRotate(p, n) ==
    LET u == Umod(n, 3)
    IN  IF u = 1 THEN Swap(Swap(p, 1, 2), 2, 3)
        ELSE IF u = 2 THEN Swap(Swap(p, 3, 2), 2, 1)
        ELSE p

\* <Quad as Rotate>::rotate
QuadRotate(p, n) ==
    LET u == Umod(n, 4)
    IN  IF u = 1 THEN Swap(Swap(Swap(p, 1, 2), 2, 3), 3, 4)
        ELSE IF u = 2 THEN Swap(Swap(p, 1, 3), 2, 4)
        ELSE IF u = 3 THEN Swap(Swap(Swap(p, 4, 3), 3, 2), 2, 1)
        ELSE p

\* Rotate::rotate on the primitive p, a Line, a Triangle or a Quad.
Rotate(p, n) ==
    IF Len(p) = 2 THEN LineRotate(p, n)
    ELSE IF Len(p) = 3 THEN TriangleRotate(p, n)
    ELSE QuadRotate(p, n)

\* The primitives: Line::new(1, 2), Triangle::new(1, 2, 3), Quad::new(1, 2, 3, 4).
Primitives == {[i \in 1..arity |-> i] : arity \in 2..4}

\* The cyclic left shift of p by k places, 0 <= k < arity.
Shift(p, k) == [i \in 1..Len(p) |-> p[((i - 1 + k) % Len(p)) + 1]]

\* No primitive is being rotated.
NoPolygon == <<>>

\* ---- the mutation session -----------------------------------------------
\* A session is the closure run by Mutate::commit_with over a mutation of
\* Core::empty(): it makes one call after the other until a call returns an
\* error, on which the mutation is aborted.  last is the latest call and
\* what it returned, with the arguments when the call wrote to the Core;
\* calls is the number of calls so far and budget the number of calls after
\* which the closure returns.  The mutation runs inside a Replace: slot is
\* the mesh in the borrowed slot, handle the Replace (its mutation field, the
\* reference it holds, how it ended and what commit returned, whether the
\* caller holds it, has forgotten it or it was dropped, the number of times
\* it was drained, and what the closure of commit_with and commit_with
\* itself returned) and started the arguments it was constructed with.
VARIABLES vertices, arcs, edges, faces, nextFace, last, calls, budget,
          slot, handle, started, decompose, polygon

stores == <<vertices, arcs, edges, faces, nextFace>>
vars == <<vertices, arcs, edges, faces, nextFace, last, calls, budget,
          slot, handle, started, decompose, polygon>>

\* The Core held by the mutation.
Core == [v |-> vertices, a |-> arcs, e |-> edges, f |-> faces, k |-> nextFace]

\* Inputs: the vertex keys and the face keys allocated so far and the next
\* key of each kind, which is not live; vertex key sequences over them,
\* of the arity that insert_face is specified for (at least 3) and below it.
VertexKeys == 1..(vertices + 1)
FaceKeys == 1..(nextFace + 1)
KeySeqs == UNION {[1..n -> VertexKeys] : n \in 3..MaxArity}
ShortKeySeqs == UNION {[1..n -> VertexKeys] : n \in 0..2}

\* Replace::replace(mesh, replacement) on a slot that holds original: the
\* replacement goes into the slot and the Replace keeps the reference to the
\* slot with the mutation of the mesh moved out of it.
ReplaceStart(via, original, replacement) ==
    /\ slot = replacement
    /\ handle = [mutation |-> "Some", mesh |-> "slot", end |-> "none", ret |-> <<>>,
                 scope |-> "held", drains |-> 0, closure |-> <<>>, output |-> <<>>]
    /\ started = [via |-> via, original |-> original, replacement |-> replacement]

\* Core::empty(), before any call, in a Replace started by mutate.
Init ==
    /\ ReplaceStart("mutate", EmptyCore, EmptyCore)
    /\ decompose = NoStream
    /\ polygon = NoPolygon
    /\ vertices = 0
    /\ arcs = <<>>
    /\ edges = <<>>
    /\ faces = <<>>
    /\ nextFace = 0
    /\ last = [op |-> "none", arg |-> <<>>, err |-> "Ok", val |-> <<>>]
    /\ calls = 0
    /\ budget = MaxCalls

\* The session can make another call.
Running == last.err = "Ok" /\ calls < budget /\ handle.end = "none"

\* The call op(arg) returned r: the Core is as the call left it.
Return(op, arg, r) ==
    /\ vertices' = r.core.v
    /\ arcs' = r.core.a
    /\ edges' = r.core.e
    /\ faces' = r.core.f
    /\ nextFace' = r.core.k
    /\ last' = [op |-> op,
                arg |-> IF IsOk(r) \/ r.core # Core THEN arg ELSE <<>>,
                err |-> r.err,
                val |-> r.val]
    /\ calls' = calls + 1
    /\ budget' = budget
    /\ UNCHANGED <<slot, handle, started, decompose, polygon>>

\* The keys a call on face abc can allocate stay within the bounds.
Room(abc, nv, nf) ==
    HasFace(Core, abc) /\ ~Diverges(Core, abc) =>
        /\ vertices + nv <= MaxVerts
        /\ nextFace + nf <= MaxFaceKeys

ArityOf(abc) == IF HasFace(Core, abc) THEN Arity(Core, abc) ELSE 0

DoInsertVertex ==
    /\ Running
    /\ vertices < MaxVerts
    /\ Return("insert_vertex", <<>>, InsertVertex(Core))

DoInsertFace ==
    /\ Running
    /\ nextFace < MaxFaceKeys
    /\ \E keys \in KeySeqs : \E r \in InsertFace(Core, keys) :
           Return("insert_face", keys, r)

DoInsertShortFace ==
    /\ Running
    /\ nextFace < MaxFaceKeys
    /\ \E keys \in ShortKeySeqs : \E r \in InsertFace(Core, keys) :
           Return("insert_face", keys, r)

DoRemoveFace ==
    /\ Running
    /\ \E abc \in FaceKeys : \E r \in RemoveFace(Core, abc) :
           Return("remove_face", <<abc>>, r)

DoSplitFace ==
    /\ Running
    /\ \E abc \in FaceKeys, source \in VertexKeys, destination \in VertexKeys :
           /\ Room(abc, 0, 2)
           /\ \E r \in SplitFace(Core, abc, source, destination) :
                  Return("split_face", <<abc, source, destination>>, r)

DoPokeFace ==
    /\ Running
    /\ \E abc \in FaceKeys :
           /\ Room(abc, 1, ArityOf(abc))
           /\ \E r \in PokeFace(Core, abc) : Return("poke_face", <<abc>>, r)

DoBridgeFaces ==
    /\ Running
    /\ \E a \in FaceKeys, b \in FaceKeys :
           /\ Room(a, 0, ArityOf(a))
           /\ \E r \in BridgeFaces(Core, a, b) : Return("bridge_faces", <<a, b>>, r)

DoExtrudeFace ==
    /\ Running
    /\ \E abc \in FaceKeys :
           /\ Room(abc, ArityOf(abc), ArityOf(abc) + 1)
           /\ \E r \in ExtrudeFace(Core, abc) : Return("extrude_face", <<abc>>, r)

Next ==
    \/ DoInsertVertex
    \/ DoInsertFace
    \/ DoRemoveFace
    \/ DoSplitFace
    \/ DoPokeFace
    \/ DoBridgeFaces
    \/ DoExtrudeFace

\* Sessions whose insert_face calls pass at least 3 vertex keys.
Spec == Init /\ [][Next]_vars

\* Sessions whose insert_face calls pass any number of vertex keys.
NextAny == Next \/ DoInsertShortFace

SpecAny == Init /\ [][NextAny]_vars

\* A session that inserted MaxVerts vertices and the triangle (v1, v2, v3)
\* and makes two calls more, each of them an insertion, a removal or a
\* bridge: the sessions that bridge two faces with no vertex in common.
InitPair ==
    LET c == [EmptyCore EXCEPT !.v = MaxVerts]
    IN  \E r \in InsertFace(c, <<1, 2, 3>>) :
            /\ ReplaceStart("mutate", EmptyCore, EmptyCore)
            /\ decompose = NoStream
            /\ polygon = NoPolygon
            /\ vertices = r.core.v
            /\ arcs = r.core.a
            /\ edges = r.core.e
            /\ faces = r.core.f
            /\ nextFace = r.core.k
            /\ last = [op |-> "insert_face", arg |-> <<1, 2, 3>>,
                       err |-> r.err, val |-> r.val]
            /\ calls = MaxVerts + 1
            /\ budget = MaxVerts + 3

NextPair ==
    \/ DoInsertFace
    \/ DoRemoveFace
    \/ DoBridgeFaces

SpecPair == InitPair /\ [][NextPair]_vars

\* ---- Replace -----------------------------------------------------------
\* The number of calls of a session in a Replace, the meshes a Replace is
\* started on (the empty mesh and a mesh of three vertices) and the
\* replacements it is given (mutate gives Mesh::empty()).
MaxReplaceCalls == 3
Originals == {EmptyCore, [EmptyCore EXCEPT !.v = 3]}
Replacements == {EmptyCore, [EmptyCore EXCEPT !.v = 1]}

\* The commit of the inner mutation: the mesh of the mutation, or an error.
InnerCommit(c) == {Res(c, "Ok", <<>>), Res(c, "Err", <<>>)}

\* Replace::drain_and_commit that leaves the slot as it is.
DrainAndCommitKeepingSlot(s, mesh, r) ==
    IF IsOk(r) THEN [slot |-> s, ret |-> <<"Ok", mesh>>]
    ELSE [slot |-> s, ret |-> <<"Err">>]

\* Replace::drain_and_commit on the slot value s through the reference mesh,
\* r being what the inner commit returned: the slot afterwards and the
\* value returned.
DrainAndCommit(s, mesh, r) ==
    IF IsOk(r) THEN [slot |-> r.core, ret |-> <<"Ok", mesh>>]
    ELSE [slot |-> s, ret |-> <<"Err">>]

\* Replace::drain_and_abort that puts the mesh of the mutation back.
DrainAndAbortRestoring(s, c) == c

\* Replace::drain_and_abort on the slot value s, c being the mesh of the
\* mutation: the slot afterwards.
DrainAndAbort(s, c) == s

InitReplace ==
    /\ \E original \in Originals :
           /\ \/ ReplaceStart("mutate", original, EmptyCore)
              \/ \E replacement \in Replacements :
                     ReplaceStart("replace", original, replacement)
           /\ vertices = original.v
           /\ arcs = original.a
           /\ edges = original.e
           /\ faces = original.f
           /\ nextFace = original.k
    /\ last = [op |-> "none", arg |-> <<>>, err |-> "Ok", val |-> <<>>]
    /\ calls = 0
    /\ budget = MaxReplaceCalls
    /\ decompose = NoStream
    /\ polygon = NoPolygon

\* The caller holds the Replace: it was not committed, aborted or dropped.
Alive == handle.end = "none" /\ handle.scope = "held"

\* Replace::drain: take().unwrap() on the mutation field panics on None.
Drain(h) ==
    IF h.mutation = "Some" THEN [h EXCEPT !.mutation = "None", !.drains = @ + 1]
    ELSE [h EXCEPT !.end = "panic"]

\* The end of commit and of abort without mem::forget: the Replace goes out
\* of scope and its Drop runs.
Unforgotten(h) == [h EXCEPT !.scope = "leaving"]

\* mem::forget(self) at the end of commit and of abort: Drop does not run.
Forget(h) == [h EXCEPT !.scope = "forgotten"]

\* Replace::commit on the Replace h with the slot value s, r being what the
\* inner commit returns: the slot and the Replace afterwards.
ReplaceCommit(h, s, r) ==
    LET h1 == Drain(h)
        done == DrainAndCommit(s, h.mesh, r)
    IN  IF h1.end = "panic" THEN [slot |-> s, handle |-> [h1 EXCEPT !.scope = "dropped"]]
        ELSE [slot |-> done.slot,
              handle |-> Forget([h1 EXCEPT !.end = "commit", !.ret = done.ret])]

\* Replace::abort on the Replace h with the slot value s, c being the mesh
\* of the mutation.
ReplaceAbort(h, s, c) ==
    LET h1 == Drain(h)
    IN  IF h1.end = "panic" THEN [slot |-> s, handle |-> [h1 EXCEPT !.scope = "dropped"]]
        ELSE [slot |-> DrainAndAbort(s, c), handle |-> Forget([h1 EXCEPT !.end = "abort"])]

\* Drop::drop for Replace.
ReplaceDrop(h, s, c) ==
    LET h1 == Drain(h)
    IN  IF h1.end = "panic" THEN [slot |-> s, handle |-> [h1 EXCEPT !.scope = "dropped"]]
        ELSE [slot |-> DrainAndAbort(s, c),
              handle |-> [h1 EXCEPT !.end = "drop", !.scope = "dropped"]]

\* What the closure given to commit_with can return: the error of the call
\* that failed, or after calls that all returned Ok the value of the last
\* call or an error of its own.
ClosureOutputs ==
    IF last.err = "Ok" THEN {<<"Ok", last.val>>, <<"Err", "Cancelled">>}
    ELSE {<<"Err", last.err>>}

\* error.into(): the error of the closure in the error type of the mutation.
Into(e) == <<"Error", e>>

\* commit_with that commits whatever the closure returned.
CommitWithAlways(output) == "commit"

\* The match of commit_with on what the closure returned.
CommitWithBranch(output) == IF output[1] = "Ok" THEN "commit" ELSE "abort"

\* Replace::commit
DoCommit ==
    /\ Alive
    /\ \E r \in InnerCommit(Core) :
           LET done == ReplaceCommit(handle, slot, r)
           IN  slot' = done.slot /\ handle' = done.handle
    /\ UNCHANGED <<stores, last, calls, budget, started, decompose, polygon>>

\* Replace::abort
DoAbort ==
    /\ Alive
    /\ LET done == ReplaceAbort(handle, slot, Core)
       IN  slot' = done.slot /\ handle' = done.handle
    /\ UNCHANGED <<stores, last, calls, budget, started, decompose, polygon>>

\* Drop of a Replace that is held or has gone out of scope unforgotten.
DoDrop ==
    /\ handle.scope \in {"held", "leaving"}
    /\ LET done == ReplaceDrop(handle, slot, Core)
       IN  slot' = done.slot /\ handle' = done.handle
    /\ UNCHANGED <<stores, last, calls, budget, started, decompose, polygon>>

\* Mutate::commit_with at the return of its closure.
DoCommitWith ==
    /\ Alive
    /\ \E output \in ClosureOutputs :
           IF CommitWithBranch(output) = "commit"
           THEN \E r \in InnerCommit(Core) :
                    LET done == ReplaceCommit(handle, slot, r)
                    IN  /\ slot' = done.slot
                        /\ handle' = [done.handle EXCEPT
                               !.closure = output,
                               !.output = IF IsOk(r) THEN <<"Ok", done.handle.ret[2], output[2]>>
                                          ELSE <<"Err", r.err>>]
           ELSE LET done == ReplaceAbort(handle, slot, Core)
                IN  /\ slot' = done.slot
                    /\ handle' = [done.handle EXCEPT
                           !.closure = output,
                           !.output = <<"Err", Into(output[2])>>]
    /\ UNCHANGED <<stores, last, calls, budget, started, decompose, polygon>>

NextReplace ==
    \/ DoInsertVertex
    \/ DoInsertFace
    \/ DoRemoveFace
    \/ DoCommit
    \/ DoAbort
    \/ DoDrop
    \/ DoCommitWith

SpecReplace == InitReplace /\ [][NextReplace]_vars

\* ---- a Decompose and its consumer ---------------------------------------
\* decompose holds the Decompose (input, output, f) and, for its consumer,
\* the input it was made over (source), the items it yielded so far
\* (yielded) and what the last call did (ret).
Consumed(d, source, yielded, ret) ==
    [input |-> d.input, output |-> d.output, f |-> d.f,
     source |-> source, yielded |-> yielded, ret |-> ret]

\* Decompose::new over up to MaxInputs inputs with any function; no mesh.
InitDecompose ==
    /\ ReplaceStart("mutate", EmptyCore, EmptyCore)
    /\ vertices = 0
    /\ arcs = <<>>
    /\ edges = <<>>
    /\ faces = <<>>
    /\ nextFace = 0
    /\ last = [op |-> "none", arg |-> <<>>, err |-> "Ok", val |-> <<>>]
    /\ calls = 0
    /\ budget = 0
    /\ polygon = NoPolygon
    /\ \E k \in 0..MaxInputs : \E f \in Functions :
           LET input == [i \in 1..k |-> <<i>>]
           IN  decompose = Consumed(DecomposeNew(input, f), input, <<>>, <<"new">>)

DoNext ==
    /\ LET r == DecomposeNext(decompose)
       IN  decompose' = Consumed(r.d, decompose.source,
                                 decompose.yielded \o r.item,
                                 IF r.item = <<>> THEN <<"None">>
                                 ELSE <<"Some", r.item[1]>>)
    /\ UNCHANGED <<stores, last, calls, budget, slot, handle, started, polygon>>

DoRemap ==
    /\ \E n \in 0..MaxApplications :
           /\ Applications(decompose.input \o decompose.output) + n + 1
                  <= MaxApplications
           /\ LET d == DecomposeRemap(decompose, n)
              IN  decompose' = Consumed(d, d.input, <<>>, <<"remap", n>>)
    /\ UNCHANGED <<stores, last, calls, budget, slot, handle, started, polygon>>

NextDecompose ==
    \/ DoNext
    \/ DoRemap

SpecDecompose == InitDecompose /\ [][NextDecompose]_vars

\* ---- a primitive and its rotations --------------------------------------
\* polygon holds the primitive as constructed (start) and as it is now
\* (shape), the arguments of the calls of rotate so far (turns) and their
\* sum (total).
InitRotate ==
    /\ ReplaceStart("mutate", EmptyCore, EmptyCore)
    /\ vertices = 0
    /\ arcs = <<>>
    /\ edges = <<>>
    /\ faces = <<>>
    /\ nextFace = 0
    /\ last = [op |-> "none", arg |-> <<>>, err |-> "Ok", val |-> <<>>]
    /\ calls = 0
    /\ budget = 0
    /\ decompose = NoStream
    /\ \E p \in Primitives :
           polygon = [start |-> p, shape |-> p, turns |-> <<>>, total |-> 0]

DoRotate ==
    /\ Len(polygon.turns) < MaxTurns
    /\ \E n \in Isize :
           polygon' = [polygon EXCEPT !.shape = Rotate(@, n),
                                      !.turns = Append(@, n),
                                      !.total = @ + n]
    /\ UNCHANGED <<stores, last, calls, budget, slot, handle, started, decompose>>

NextRotate == DoRotate

SpecRotate == InitRotate /\ [][NextRotate]_vars

\* ---- topology of a Core -------------------------------------------------
LiveArcs == DOMAIN arcs

\* The arcs reached from ab by following step, ab included: the walk so far
\* is seen, the arcs to continue from are todo.
RECURSIVE Reach(_, _, _)
Reach(step(_), seen, todo) ==
    IF todo = {} THEN seen
    ELSE LET new == {step(k) : k \in todo} \ seen
         IN  Reach(step, seen \cup new, new)

NextOf(k) == IF k \in LiveArcs THEN arcs[k].next ELSE NoArc
StarOf(k) == NextOf(Opposite(k))

\* The arcs reached from ab by one or more steps of next.
NextOrbit(ab) == Reach(NextOf, {NextOf(ab)}, {NextOf(ab)})

\* The arcs reached from ab by one or more steps of "opposite then next".
StarOrbit(ab) == Reach(StarOf, {StarOf(ab)}, {StarOf(ab)})

\* Every call so far returned Ok: the Core is one that commit returns.
Committed == last.err = "Ok"

\* C1: in every committed Core, previous is the inverse of next on every live
\* arc, and following next from a live arc returns to that arc.
RingClosure ==
    Committed =>
        \A k \in LiveArcs :
            /\ arcs[k].next \in LiveArcs
            /\ arcs[k].previous \in LiveArcs
            /\ arcs[arcs[k].next].previous = k
            /\ arcs[arcs[k].previous].next = k
            /\ k \in NextOrbit(k)

\* C2: in every committed Core, every live arc lies on a next-cycle whose
\* arcs all carry the same face value, which is a live face or no face.
CycleFaces ==
    Committed =>
        \A k \in LiveArcs :
            /\ k \in NextOrbit(k)
            /\ \A j \in NextOrbit(k) : j \in LiveArcs /\ arcs[j].face = arcs[k].face
            /\ arcs[k].face # NoFace =>
                   /\ arcs[k].face \in DOMAIN faces
                   /\ faces[arcs[k].face].arc \in NextOrbit(k)

\* C3: in every committed Core, the arcs reached from f.arc by next are
\* exactly the live arcs whose face is f, and no arc names a face not live.
FaceAssignment ==
    Committed =>
        /\ \A f \in DOMAIN faces :
               NextOrbit(faces[f].arc) = {k \in LiveArcs : arcs[k].face = f}
        /\ \A k \in LiveArcs : arcs[k].face # NoFace => arcs[k].face \in DOMAIN faces

\* C3 witness: a committed Core with a live face and a removed face whose
\* former interior arcs are still live.
FaceAssignmentSeen ==
    /\ Committed
    /\ DOMAIN faces # {}
    /\ Cardinality(DOMAIN faces) < nextFace
    /\ \E k \in LiveArcs :
           /\ Opposite(k) \in LiveArcs
           /\ arcs[k].face = NoFace
           /\ arcs[Opposite(k)].face = NoFace

\* C4: in every committed Core, the ring of every live face closes in at
\* least 3 steps.
FaceArity ==
    Committed =>
        \A f \in DOMAIN faces :
            /\ faces[f].arc \in NextOrbit(faces[f].arc)
            /\ Cardinality(NextOrbit(faces[f].arc)) >= 3

\* C5: in every committed Core, "opposite then next" from any outgoing arc
\* of a vertex visits exactly the live arcs with that source.
VertexStar ==
    Committed =>
        \A k \in LiveArcs : StarOrbit(k) = {j \in LiveArcs : j[1] = k[1]}

\* C6: in every committed Core, the arc (a, b) is live exactly when the arc
\* (b, a) is live, and the opposite of the opposite of an arc is the arc; the
\* arc store is keyed by the ordered vertex pair, so there is at most one arc
\* per pair.
OppositePairs ==
    Committed =>
        \A a \in 1..vertices, b \in 1..vertices :
            /\ <<a, b>> \in LiveArcs <=> <<b, a>> \in LiveArcs
            /\ Opposite(Opposite(<<a, b>>)) = <<a, b>>
            /\ LiveArcs \subseteq (1..vertices) \X (1..vertices)

\* C6 witness: a committed Core where a face was inserted over the arc pair
\* of an earlier face, so that both arcs of one pair are interior arcs.
OppositePairsSeen ==
    /\ Committed
    /\ \E k \in LiveArcs :
           /\ Opposite(k) \in LiveArcs
           /\ arcs[k].face # NoFace
           /\ arcs[Opposite(k)].face # NoFace
           /\ arcs[k].face # arcs[Opposite(k)].face

\* ---- failure semantics --------------------------------------------------
\* The errors that FaceInsertCache::snapshot returns.
SnapshotErrors == {"TopologyMalformed", "TopologyNotFound", "TopologyConflict"}

\* The step is a call of op.
Called(op) == calls' = calls + 1 /\ last'.op = op

\* C7: a call of insert_face that returns TopologyMalformed, TopologyNotFound
\* or TopologyConflict leaves the vertex, arc, edge and face stores as they
\* were before the call.
SnapshotFailureWritesNothing ==
    [][Called("insert_face") /\ last'.err \in SnapshotErrors => UNCHANGED stores]_vars

\* C7 witness: insert_face was refused with TopologyConflict on a Core that
\* holds a face.
SnapshotFailureSeen ==
    /\ last.op = "insert_face"
    /\ last.err = "TopologyConflict"
    /\ DOMAIN faces # {}

\* C8: a call of insert_face that returns Ok was given at least 3 vertex
\* keys (a call with fewer fails).
ShortFaceRejected ==
    last.op = "insert_face" /\ last.err = "Ok" => Len(last.arg) >= 3

\* C9: a call of split_face that returns an error leaves the four stores as
\* they were before the call.
SplitFailsCleanly ==
    [][Called("split_face") /\ last'.err # "Ok" => UNCHANGED stores]_vars

\* C10: a call of bridge_faces that returns an error leaves the four stores
\* as they were before the call.
BridgeFailsCleanly ==
    [][Called("bridge_faces") /\ last'.err # "Ok" => UNCHANGED stores]_vars

\* ---- FaceInsertCache::snapshot on every input ---------------------------
\* The key sequences that insert_face can be called with in this state.
AllKeySeqs == KeySeqs \cup ShortKeySeqs

Distinct(keys) == Cardinality(SeqRange(keys)) = Len(keys)

AllLive(keys) == \A i \in 1..Len(keys) : HasVertex(Core, keys[i])

\* Some arc (vi, vi+1) of the proposed ring, wrapping, exists and has a face.
Occupied(keys) ==
    \E i \in 1..Len(keys) :
        LET ab == Perimeter(keys)[i]
        IN  HasArc(Core, ab) /\ ~IsBoundaryArc(Core, ab)

\* For some consecutive arcs AB, BC of the proposed ring, AB exists, BC does
\* not, and the next arc of AB has its destination in the proposed vertex set.
Junction(keys) ==
    \E i \in 1..Len(keys) :
        LET ab == Perimeter(keys)[i]
            bc == Perimeter(keys)[(i % Len(keys)) + 1]
        IN  /\ HasArc(Core, ab)
            /\ ~HasArc(Core, bc)
            /\ ReachableNext(Core, ab) # NoArc
            /\ ReachableNext(Core, ab)[2] \in SeqRange(keys)

\* The proposed ring runs through a live face: two consecutive vertices of it
\* lie on the ring of the face without being neighbours there (a diagonal).
CrossesFace(keys) ==
    \E f \in DOMAIN faces : \E i \in 1..Len(keys) :
        LET ring == FaceVertices(Core, f)
            ab == Perimeter(keys)[i]
        IN  /\ ab[1] # ab[2]
            /\ RingDistance(ring, ab[1], ab[2]) >= 2

\* C11: on every Core, the snapshot returns TopologyMalformed for every key
\* sequence whose keys are not pairwise distinct.
DuplicateKeysMalformed ==
    \A keys \in AllKeySeqs :
        ~Distinct(keys) => InsertSnapshot(Core, keys) = "TopologyMalformed"

\* C11 witness: insert_face was called on a Core with arcs and returned
\* TopologyMalformed.
DuplicateKeysSeen ==
    /\ last.op = "insert_face"
    /\ last.err = "TopologyMalformed"
    /\ LiveArcs # {}

\* C12: on every Core, the snapshot returns TopologyNotFound for every
\* sequence of pairwise distinct keys of which one is not a live vertex.
MissingVertexNotFound ==
    \A keys \in AllKeySeqs :
        Distinct(keys) /\ ~AllLive(keys) =>
            InsertSnapshot(Core, keys) = "TopologyNotFound"

\* C12 witness: insert_face was called on a Core with arcs and returned
\* TopologyNotFound.
MissingVertexSeen ==
    /\ last.op = "insert_face"
    /\ last.err = "TopologyNotFound"
    /\ LiveArcs # {}

\* C13 as stated: on every Core, the snapshot returns TopologyConflict for
\* every key sequence with an occupied ring arc.
OccupiedRingConflict ==
    \A keys \in AllKeySeqs :
        Occupied(keys) => InsertSnapshot(Core, keys) = "TopologyConflict"

\* C13 amended: on every Core, the snapshot returns TopologyConflict for
\* every sequence of pairwise distinct live keys with an occupied ring arc.
OccupiedDistinctRingConflict ==
    \A keys \in AllKeySeqs :
        Distinct(keys) /\ AllLive(keys) /\ Occupied(keys) =>
            InsertSnapshot(Core, keys) = "TopologyConflict"

\* C13 witness: insert_face returned TopologyConflict on a Core where the
\* wrapping pair (vn, v1) of some distinct live sequence is its only occupied
\* arc.
OccupiedRingSeen ==
    /\ last.op = "insert_face"
    /\ last.err = "TopologyConflict"
    /\ \E keys \in KeySeqs :
           /\ Distinct(keys) /\ AllLive(keys)
           /\ \A i \in 1..Len(keys) :
                  LET ab == Perimeter(keys)[i]
                  IN  (HasArc(Core, ab) /\ ~IsBoundaryArc(Core, ab)) <=> i = Len(keys)

\* C14, first part: on every Core, the snapshot returns TopologyConflict for
\* every sequence of pairwise distinct live keys with a junction AB, BC where
\* AB exists, BC does not and the next arc of AB leads into the vertex set.
JunctionConflict ==
    \A keys \in AllKeySeqs :
        Distinct(keys) /\ AllLive(keys) /\ Junction(keys) =>
            InsertSnapshot(Core, keys) = "TopologyConflict"

\* C14: in every committed Core, the snapshot returns TopologyConflict at
\* every such junction, and it refuses every sequence of at least 3 pairwise
\* distinct live keys whose ring runs through a live face.
BisectionRejected ==
    /\ JunctionConflict
    /\ Committed =>
           \A keys \in KeySeqs :
               Distinct(keys) /\ AllLive(keys) /\ CrossesFace(keys) =>
                   InsertSnapshot(Core, keys) # "Ok"

\* ---- what the operations return and leave behind ------------------------
\* C15: a call insert_face(v1..vn) that returns Ok returns a face key f that
\* was not live before; f.arc is (v1, v2), the walk along next from f.arc is
\* (v1,v2), (v2,v3), ..., (vn,v1) in this order, and each of them has face f.
InsertedRing ==
    [][Called("insert_face") /\ last'.err = "Ok" =>
           LET keys == last'.arg
               f == last'.val[1]
           IN  /\ f \notin DOMAIN faces
               /\ f \in DOMAIN faces'
               /\ faces'[f].arc = <<keys[1], keys[2]>>
               /\ InteriorArcs(Core', f) = Perimeter(keys)
               /\ \A i \in 1..Len(keys) : arcs'[Perimeter(keys)[i]].face = f]_vars

\* C15 witness: insert_face returned a quadrilateral that shares an edge with
\* a face inserted before.
InsertedRingSeen ==
    /\ last.op = "insert_face"
    /\ last.err = "Ok"
    /\ Len(last.arg) = 4
    /\ \E i \in 1..4 :
           LET ba == Opposite(Perimeter(last.arg)[i])
           IN  HasArc(Core, ba) /\ ~IsBoundaryArc(Core, ba)

\* C16: a call remove_face(f) that returns Ok was given a live face f; it
\* returns the payload of f, removes f and no other face, clears the face of
\* exactly the arcs on the ring of f, and leaves the vertex, arc and edge key
\* sets and the next, previous and edge of every arc as they were.
RemoveClearsRing ==
    [][Called("remove_face") /\ last'.err = "Ok" =>
           LET f == last'.arg[1]
               ring == SeqRange(InteriorArcs(Core, f))
           IN  /\ f \in DOMAIN faces
               /\ last'.val = <<faces[f]>>
               /\ DOMAIN faces' = DOMAIN faces \ {f}
               /\ \A g \in DOMAIN faces' : faces'[g] = faces[g]
               /\ vertices' = vertices
               /\ edges' = edges
               /\ DOMAIN arcs' = DOMAIN arcs
               /\ \A k \in DOMAIN arcs :
                      /\ arcs'[k].next = arcs[k].next
                      /\ arcs'[k].previous = arcs[k].previous
                      /\ arcs'[k].edge = arcs[k].edge
                      /\ arcs'[k].face = IF k \in ring THEN NoFace ELSE arcs[k].face]_vars

\* C16 witness: remove_face returned the payload of a face that shared an
\* edge with a face that is still live: the arc after the leading arc of the
\* removed face is a boundary arc now, its opposite an interior arc.
RemoveClearsRingSeen ==
    /\ last.op = "remove_face"
    /\ last.err = "Ok"
    /\ \E k \in LiveArcs :
           /\ IsBoundaryArc(Core, k)
           /\ HasArc(Core, Opposite(k))
           /\ ~IsBoundaryArc(Core, Opposite(k))
           /\ arcs[k].previous = last.val[1].arc

\* C17: on every committed Core and for every key sequence on which
\* insert_face returns Ok, removing the inserted face returns Ok and leaves
\* the vertex, arc and edge key sets that the Core had before the insertion.
InsertRemoveIdempotent ==
    Committed =>
        \A keys \in KeySeqs : \A r \in InsertFace(Core, keys) :
            IsOk(r) =>
                LET cache == RemoveSnapshot(r.core, r.val[1])
                    q == RemoveWithCache(r.core, cache.val)
                IN  /\ IsOk(cache)
                    /\ IsOk(q)
                    /\ q.core.v = vertices
                    /\ DOMAIN q.core.a = DOMAIN arcs
                    /\ DOMAIN q.core.e = DOMAIN edges

\* a and b are neighbours on the ring, in either direction.
Adjacent(ring, a, b) ==
    \E i \in 1..Len(ring) :
        LET j == (i % Len(ring)) + 1
        IN  (ring[i] = a /\ ring[j] = b) \/ (ring[i] = b /\ ring[j] = a)

\* C18: in every committed Core, split_face of a live face on two ring
\* vertices that are equal or neighbours returns TopologyMalformed and writes
\* nothing, and the left and the right path of every split that the snapshot
\* accepts have at least 3 vertices.
SplitRejectsNeighbours ==
    Committed =>
        \A f \in DOMAIN faces : \A s \in VertexKeys, d \in VertexKeys :
            LET ring == FaceVertices(Core, f)
                cache == SplitSnapshot(Core, f, s, d)
            IN  /\ {s, d} \subseteq SeqRange(ring) /\ (s = d \/ Adjacent(ring, s, d)) =>
                       SplitFace(Core, f, s, d) = {Res(Core, "TopologyMalformed", <<>>)}
                /\ IsOk(cache) =>
                       Len(cache.val.left) >= 3 /\ Len(cache.val.right) >= 3

\* C18 witness: split_face returned TopologyMalformed on a Core with a
\* quadrilateral and a triangle.
SplitRejectsNeighboursSeen ==
    /\ last.op = "split_face"
    /\ last.err = "TopologyMalformed"
    /\ \E f \in DOMAIN faces : Arity(Core, f) = 4
    /\ \E f \in DOMAIN faces : Arity(Core, f) = 3

\* The vertices of the ring from a to b, both included, in ring order.
PathAlong(ring, a, b) ==
    LET n == Len(ring)
        i == IndexOf(ring, a)
        j == IndexOf(ring, b)
    IN  [k \in 1..(((j - i + n) % n) + 1) |-> ring[((i + k - 2) % n) + 1]]

\* C19: a call split_face(f, s, d) that returns Ok removes f and puts two new
\* faces in its place: the ring of one is the path from s to d, the ring of
\* the other the path from d to s, their interior arcs together are the
\* former interior arcs of f with (s, d) and (d, s), and their arities sum to
\* the arity of f plus 2.
SplitCoverage ==
    [][Called("split_face") /\ last'.err = "Ok" =>
           LET f == last'.arg[1]
               s == last'.arg[2]
               d == last'.arg[3]
               ring == FaceVertices(Core, f)
               new == DOMAIN faces' \ DOMAIN faces
           IN  /\ f \in DOMAIN faces
               /\ DOMAIN faces' = (DOMAIN faces \ {f}) \cup new
               /\ Cardinality(new) = 2
               /\ \E l \in new, r \in new :
                      /\ l # r
                      /\ FaceVertices(Core', l) = PathAlong(ring, s, d)
                      /\ FaceVertices(Core', r) = PathAlong(ring, d, s)
                      /\ SeqRange(InteriorArcs(Core', l)) \cup SeqRange(InteriorArcs(Core', r))
                             = SeqRange(InteriorArcs(Core, f)) \cup {<<s, d>>, <<d, s>>}
                      /\ Arity(Core', l) + Arity(Core', r) = Arity(Core, f) + 2]_vars

\* C19 witness: split_face returned Ok on a Core that holds another face.
SplitCoverageSeen ==
    /\ last.op = "split_face"
    /\ last.err = "Ok"
    /\ Cardinality(DOMAIN faces) >= 3

\* C20: a call split_face(f, s, d) that returns Ok returns the arc key (s, d);
\* (s, d) is then an interior arc of one of the two new faces and (d, s) an
\* interior arc of the other.
SplitReturnsDiagonal ==
    [][Called("split_face") /\ last'.err = "Ok" =>
           LET s == last'.arg[2]
               d == last'.arg[3]
               new == DOMAIN faces' \ DOMAIN faces
           IN  /\ last'.val = <<s, d>>
               /\ {<<s, d>>, <<d, s>>} \subseteq DOMAIN arcs'
               /\ arcs'[<<s, d>>].face \in new
               /\ arcs'[<<d, s>>].face \in new
               /\ arcs'[<<s, d>>].face # arcs'[<<d, s>>].face
               /\ <<s, d>> \in SeqRange(InteriorArcs(Core', arcs'[<<s, d>>].face))
               /\ <<d, s>> \in SeqRange(InteriorArcs(Core', arcs'[<<d, s>>].face))]_vars

\* C20 witness: split_face on the diagonal (v1, v3) of the quadrilateral
\* (v1, v2, v3, v4) returned Ok and left two triangles.
SplitReturnsDiagonalSeen ==
    /\ last.op = "split_face"
    /\ last.err = "Ok"
    /\ last.val = <<1, 3>>
    /\ Cardinality(DOMAIN faces) = 2
    /\ \A f \in DOMAIN faces : Arity(Core, f) = 3
    /\ Cardinality({k \in LiveArcs : IsBoundaryArc(Core, k)}) = 4

\* ---- frame of split and poke --------------------------------------------
\* C21: a call of split_face or poke_face that returns Ok leaves every arc
\* that was a boundary arc before the call a boundary arc with the same next
\* and previous arcs.
BoundaryUnchanged ==
    [][(Called("split_face") \/ Called("poke_face")) /\ last'.err = "Ok" =>
           \A k \in DOMAIN arcs :
               IsBoundaryArc(Core, k) =>
                   /\ k \in DOMAIN arcs'
                   /\ arcs'[k].face = NoFace
                   /\ arcs'[k].next = arcs[k].next
                   /\ arcs'[k].previous = arcs[k].previous]_vars

\* ---- poke, bridge and extrude -------------------------------------------
\* A consistent Core: a committed Core in which rings close, cycles carry one
\* face, faces own their rings, rings have 3 arcs or more, vertex stars are
\* complete and arcs come in opposite pairs.
Consistent ==
    /\ Committed
    /\ RingClosure
    /\ CycleFaces
    /\ FaceAssignment
    /\ FaceArity
    /\ VertexStar
    /\ OppositePairs

\* The arcs of the triangle (a, b, c).
TriangleArcs(a, b, c) == {<<a, b>>, <<b, c>>, <<c, a>>}

\* C22: on a consistent Core on which the session may make a further call,
\* poke_face on a live n-gon f returns Ok with
\* the key c of the one vertex it inserted, removes f and adds exactly n
\* faces, the triangles (vi, vi+1, c) over the consecutive pairs of the ring
\* of f; every arc with source or destination c is then an interior arc.
PokeFan ==
    Consistent /\ Running =>
        \A f \in DOMAIN faces :
            LET ring == FaceVertices(Core, f)
                n == Len(ring)
                c == vertices + 1
            IN  \A r \in PokeFace(Core, f) :
                    LET new == DOMAIN r.core.f \ DOMAIN faces
                    IN  /\ IsOk(r)
                        /\ r.val = <<c>>
                        /\ r.core.v = vertices + 1
                        /\ DOMAIN r.core.f = (DOMAIN faces \ {f}) \cup new
                        /\ f \notin new
                        /\ Cardinality(new) = n
                        /\ \A g \in new : Arity(r.core, g) = 3
                        /\ {SeqRange(InteriorArcs(r.core, g)) : g \in new}
                               = {TriangleArcs(ring[i], ring[(i % n) + 1], c) : i \in 1..n}
                        /\ \A k \in DOMAIN r.core.a :
                               k[1] = c \/ k[2] = c => ~IsBoundaryArc(r.core, k)

\* C22 witness: poke_face returned Ok on a face that had a neighbouring
\* face: three triangles or more meet at the new vertex and a face that does
\* not touch it is live.
PokeFanSeen ==
    /\ Committed
    /\ last.op = "poke_face"
    /\ Cardinality({f \in DOMAIN faces : faces[f].arc[1] = last.val[1]
                                         \/ <<faces[f].arc[2], last.val[1]>> \in LiveArcs}) >= 3
    /\ \E f \in DOMAIN faces : <<faces[f].arc[2], last.val[1]>> \notin LiveArcs

\* The live faces a and b have the same arity and no vertex in common.
Disjoint(a, b) ==
    /\ a # b
    /\ Arity(Core, a) = Arity(Core, b)
    /\ SeqRange(FaceVertices(Core, a)) \cap SeqRange(FaceVertices(Core, b)) = {}

\* The arcs of the quadrilateral that joins the arcs ab and cd.
QuadArcs(ab, cd) == {ab, <<ab[2], cd[1]>>, cd, <<cd[2], ab[1]>>}

\* No live arc joins a vertex of a with a vertex of b.
Apart(a, b) ==
    \A k \in LiveArcs :
        ~(/\ k[1] \in SeqRange(FaceVertices(Core, a))
          /\ k[2] \in SeqRange(FaceVertices(Core, b)))

\* The outcome of bridging the n-gons a and b: Ok, a and b removed, exactly
\* n faces added, the quadrilaterals joining the i-th interior arc of a with
\* the (n-1-i)-th interior arc of b, and every former interior arc of a and
\* of b an interior arc of one of the new faces.
Bridged(a, b, r) ==
    LET source == InteriorArcs(Core, a)
        destination == InteriorArcs(Core, b)
        n == Len(source)
        new == DOMAIN r.core.f \ DOMAIN faces
    IN  /\ IsOk(r)
        /\ DOMAIN r.core.f = (DOMAIN faces \ {a, b}) \cup new
        /\ a \notin new /\ b \notin new
        /\ Cardinality(new) = n
        /\ \A g \in new : Arity(r.core, g) = 4
        /\ {SeqRange(InteriorArcs(r.core, g)) : g \in new}
               = {QuadArcs(source[i], destination[n + 1 - i]) : i \in 1..n}
        /\ \A k \in SeqRange(source) \cup SeqRange(destination) :
               /\ k \in DOMAIN r.core.a
               /\ r.core.a[k].face \in new

BridgeSnapshotRefuses ==
    Committed =>
        \A a \in FaceKeys, b \in FaceKeys :
            LET s == BridgeSnapshot(Core, a, b)
                expected == IF ~HasFace(Core, a) \/ ~HasFace(Core, b)
                            THEN "TopologyNotFound"
                            ELSE IF Arity(Core, a) # Arity(Core, b)
                            THEN "ArityNonUniform"
                            ELSE "Ok"
            IN  /\ s.err = expected
                /\ s.core = Core
                /\ expected # "Ok" => BridgeFaces(Core, a, b) = {Res(Core, expected, <<>>)}

\* C24 witness: bridge_faces was refused with ArityNonUniform on a Core
\* that holds a triangle and a quadrilateral, both live.
BridgeSnapshotRefusesSeen ==
    /\ last.op = "bridge_faces"
    /\ last.err = "ArityNonUniform"
    /\ \E a \in DOMAIN faces, b \in DOMAIN faces :
           Arity(Core, a) = 3 /\ Arity(Core, b) = 4

\* C25: on a committed Core on which the session may make a further call,
\* extrude_face on a live n-gon f with ring s1..sn returns Ok, removes f,
\* inserts exactly n vertices d1..dn, adds the n-gon over (d1..dn) and
\* returns its key, and adds exactly n faces more, the quadrilaterals
\* (si, si+1, di+1, di); the number of live faces grows by n.
ExtrudePrism ==
    Committed /\ Running =>
        \A f \in DOMAIN faces :
            LET s == FaceVertices(Core, f)
                n == Len(s)
                d == [i \in 1..n |-> vertices + i]
            IN  \A r \in ExtrudeFace(Core, f) :
                    LET new == DOMAIN r.core.f \ DOMAIN faces
                        top == r.val[1]
                    IN  /\ IsOk(r)
                        /\ r.core.v = vertices + n
                        /\ DOMAIN r.core.f = (DOMAIN faces \ {f}) \cup new
                        /\ f \notin new
                        /\ Cardinality(new) = n + 1
                        /\ Cardinality(DOMAIN r.core.f) = Cardinality(DOMAIN faces) + n
                        /\ top \in new
                        /\ FaceVertices(r.core, top) = d
                        /\ \A g \in new \ {top} : Arity(r.core, g) = 4
                        /\ {InteriorArcs(r.core, g) : g \in new \ {top}}
                               = {Perimeter(<<s[i], s[(i % n) + 1],
                                              d[(i % n) + 1], d[i]>>) : i \in 1..n}

\* C25 witness: extrude_face returned Ok on a triangle: the top triangle
\* and three side quadrilaterals are live over six vertices.
ExtrudePrismSeen ==
    /\ Committed
    /\ last.op = "extrude_face"
    /\ vertices = 6
    /\ Arity(Core, last.val[1]) = 3
    /\ Cardinality({f \in DOMAIN faces : Arity(Core, f) = 4}) = 3

\* A closed mesh: arcs exist and every arc has a face.
Closed(c) == DOMAIN c.a # {} /\ \A k \in DOMAIN c.a : ~IsBoundaryArc(c, k)

\* In c previous is the inverse of next and following next from an arc
\* returns to it.
RingsClose(c) ==
    \A k \in DOMAIN c.a :
        LET ring == Circulate(c, k, k, <<>>)
        IN  /\ HasArc(c, c.a[k].next)
            /\ HasArc(c, c.a[k].previous)
            /\ c.a[c.a[k].next].previous = k
            /\ c.a[c.a[k].previous].next = k
            /\ Len(ring) <= Cardinality(DOMAIN c.a)
            /\ c.a[ring[Len(ring)]].next = k

\* C26: on a consistent Core that is a closed mesh, extrude_face on a live
\* face returns Ok and yields a closed mesh: no live arc is a boundary arc,
\* every former interior arc of the face is an interior arc of a new
\* quadrilateral, and all rings close.
ExtrudeKeepsClosed ==
    Consistent /\ Running /\ Closed(Core) =>
        \A f \in DOMAIN faces :
            \A r \in ExtrudeFace(Core, f) :
                /\ IsOk(r)
                /\ Closed(r.core)
                /\ RingsClose(r.core)
                /\ \A k \in SeqRange(InteriorArcs(Core, f)) :
                       /\ HasArc(r.core, k)
                       /\ r.core.a[k].face \in DOMAIN r.core.f \ DOMAIN faces
                       /\ r.core.a[k].face # r.val[1]
                       /\ Arity(r.core, r.core.a[k].face) = 4

\* C26 witness: a consistent closed mesh on which the session may make a
\* further call: two faces over the same vertices, each the neighbour of the
\* other along every edge.
ExtrudeKeepsClosedSeen ==
    /\ Consistent
    /\ Running
    /\ Closed(Core)
    /\ Cardinality(DOMAIN faces) >= 2

\* ---- exterior repair ----------------------------------------------------
\* The decision of exterior repair for the interior arc ab in the Core c:
\* the arcs that can be chosen as ax and as xb.
Chosen(c, ab, conn) == <<ExteriorNext(c, ab, conn), ExteriorPrevious(c, ab, conn)>>

\* The iterations of exterior repair that take a decision, for the keys on
\* the Core: <<ab, c>> with c a Core in which the iteration for ab can start
\* and the opposite of ab a boundary arc.
Decisions(keys) ==
    LET linked == InteriorLinked(Core, keys)
        conn == Connectivity(Core, keys)
    IN  IF InsertSnapshot(Core, keys) # "Ok" \/ ~IsOk(linked) THEN {}
        ELSE UNION {{<<linked.val[j], c>> :
                         c \in {x \in ExteriorCores(linked.core, linked.val, conn, 1, j) :
                                    IsBoundaryArc(x, Opposite(linked.val[j]))}} :
                        j \in 1..Len(linked.val)}

\* C27 as stated: in a committed Core, for every insert_face and every
\* interior arc ab whose opposite is a boundary arc, the ax and xb that
\* exterior repair can choose are those that the Core captured by the
\* snapshot, before any write, gives.
RepairReadsSnapshotOnly ==
    Committed /\ Running =>
        \A keys \in KeySeqs :
            \A d \in Decisions(keys) :
                Chosen(d[2], d[1], Connectivity(Core, keys))
                    = Chosen(Core, d[1], Connectivity(Core, keys))

\* C27: in a committed Core, for every insert_face and every interior arc ab
\* whose opposite is a boundary arc, the ax and xb that exterior repair can
\* choose are those that the Core gives as interior linking left it,
\* whatever the earlier iterations of the repair wrote; and when an arc of
\* the captured outgoing (incoming) list is a boundary arc, ax (xb) is an arc
\* that was live before any write.
RepairReadsLinkedCore ==
    Committed /\ Running =>
        \A keys \in KeySeqs :
            LET conn == Connectivity(Core, keys)
                linked == InteriorLinked(Core, keys).core
            IN  \A d \in Decisions(keys) :
                    LET ab == d[1]
                        c == d[2]
                    IN  /\ Chosen(c, ab, conn) = Chosen(linked, ab, conn)
                        /\ (\E k \in conn.outgoing[ab[1]] : IsBoundaryArc(c, k))
                               => ExteriorNext(c, ab, conn) \subseteq LiveArcs
                        /\ (\E k \in conn.incoming[ab[2]] : IsBoundaryArc(c, k))
                               => ExteriorPrevious(c, ab, conn) \subseteq LiveArcs

\* C27 witness: a committed Core with a face removed from it and a face
\* live, so that an insert_face over the freed arcs finds in the captured
\* lists arcs that interior linking turns into interior arcs.
RepairReadsLinkedCoreSeen ==
    /\ Committed
    /\ Running
    /\ DOMAIN faces # {}
    /\ \E keys \in KeySeqs :
           /\ Decisions(keys) # {}
           /\ \E i \in 1..Len(keys) :
                  /\ Perimeter(keys)[i] \in LiveArcs
                  /\ IsBoundaryArc(Core, Opposite(Perimeter(keys)[i]))

\* The opposite of the arc k of c, when k and its opposite are live.
OppositeIn(c, k) ==
    IF k \in DOMAIN c.a /\ Opposite(k) \in DOMAIN c.a THEN {Opposite(k)} ELSE {}

\* C28: in a committed Core, for every insert_face, every interior arc ab of
\* the new face and every Core c in which the repair of ab can start: ax is
\* a boundary arc of the outgoing arcs of a captured before any write, any of
\* them being possibly the first, else the opposite of the previous arc of ab;
\* xb is a boundary arc of the captured incoming arcs of b, else the opposite
\* of the next arc of ab; when ba has no face and both exist the repair
\* writes ba.next = ax, ax.previous = ba, xb.next = ba and ba.previous = xb
\* and nothing else, and otherwise it writes nothing.
RepairLinks ==
    Committed /\ Running =>
        \A keys \in KeySeqs :
            LET linked == InteriorLinked(Core, keys)
                conn == Connectivity(Core, keys)
                ring == linked.val
            IN  InsertSnapshot(Core, keys) = "Ok" /\ IsOk(linked) =>
                    \A j \in 1..Len(ring) :
                        \A c \in ExteriorCores(linked.core, ring, conn, 1, j) :
                            LET ab == ring[j]
                                ba == Opposite(ab)
                                outgoing == {k \in OutgoingArcs(Core, ab[1]) : c.a[k].face = NoFace}
                                incoming == {k \in IncomingArcs(Core, ab[2]) : c.a[k].face = NoFace}
                                axs == IF outgoing # {} THEN outgoing
                                       ELSE OppositeIn(c, c.a[ab].previous)
                                xbs == IF incoming # {} THEN incoming
                                       ELSE OppositeIn(c, c.a[ab].next)
                                outcomes == ConnectExteriorArc(c, ab, conn)
                            IN  IF c.a[ba].face # NoFace \/ axs = {} \/ xbs = {}
                                THEN outcomes = {Res(c, "Ok", <<>>)}
                                ELSE outcomes =
                                         {Res([c EXCEPT !.a = [@ EXCEPT ![ba].next = ax,
                                                                        ![ax].previous = ba,
                                                                        ![xb].next = ba,
                                                                        ![ba].previous = xb]],
                                              "Ok", <<>>) : ax \in axs, xb \in xbs}

\* C28 witness: insert_face returned Ok for a face with an interior arc
\* whose opposite has a face, and with an interior arc whose opposite is a
\* boundary arc linked to arcs that are not opposites of the ring: arcs drawn
\* from the captured lists.
RepairLinksSeen ==
    /\ Committed
    /\ last.op = "insert_face"
    /\ LET ring == SeqRange(InteriorArcs(Core, last.val[1]))
       IN  /\ \E ab \in ring : arcs[Opposite(ab)].face # NoFace
           /\ \E ab \in ring :
                  /\ arcs[Opposite(ab)].face = NoFace
                  /\ Opposite(arcs[Opposite(ab)].next) \notin ring
                  /\ Opposite(arcs[Opposite(ab)].previous) \notin ring

\* ---- Replace: what the slot holds ---------------------------------------
\* C29: once a Replace was aborted, dropped without commit, or its commit
\* returned an error, the slot holds the replacement it was constructed
\* with, Mesh::empty() when it was started by mutate, and not the original
\* mesh when that differs from the replacement.
FailedReplaceLeavesReplacement ==
    handle.end \in {"abort", "drop"} \/ (handle.end = "commit" /\ handle.ret = <<"Err">>) =>
        /\ slot = started.replacement
        /\ started.via = "mutate" => slot = EmptyCore
        /\ started.original # started.replacement => slot # started.original

\* C29 witness: a Replace started by mutate on a mesh with vertices was
\* aborted after a call had changed the mesh of the mutation.
FailedReplaceSeen ==
    /\ handle.end = "abort"
    /\ started.via = "mutate"
    /\ started.original # EmptyCore
    /\ Core # started.original

\* C30: once the commit of a Replace returned Ok, the slot holds the mesh
\* that the commit of the inner mutation returned and the reference
\* returned is the reference to the slot.
CommittedReplaceHoldsMutant ==
    handle.end = "commit" /\ handle.ret # <<"Err">> =>
        /\ slot = Core
        /\ handle.ret = <<"Ok", "slot">>

\* C30 witness: the commit of a Replace returned Ok after the mutation had
\* inserted a face, with a replacement that is not the mesh committed.
CommittedReplaceSeen ==
    /\ handle.end = "commit"
    /\ handle.ret = <<"Ok", "slot">>
    /\ DOMAIN faces # {}
    /\ started.replacement # Core
    /\ started.replacement # EmptyCore

\* ---- keys ---------------------------------------------------------------
\* The operations that replace the face given as their first argument.
Replacing == {"split_face", "poke_face", "bridge_faces", "extrude_face"}

\* C31: in every step of a session, a face key that becomes live was never
\* handed out before, a face key that was handed out and is not live stays
\* not live, the key that a successful insert_face returns was never
\* returned before, and after a successful split, poke, bridge or extrude
\* the key of the face it was given is not live.
FaceKeysNeverReused ==
    [][/\ nextFace' >= nextFace
       /\ DOMAIN faces \subseteq 1..nextFace
       /\ (DOMAIN faces' \ DOMAIN faces) \subseteq (nextFace + 1)..nextFace'
       /\ \A f \in 1..nextFace : f \notin DOMAIN faces => f \notin DOMAIN faces'
       /\ Called("insert_face") /\ last'.err = "Ok" =>
              last'.val[1] \notin 1..nextFace /\ last'.val[1] \in DOMAIN faces'
       /\ (\E op \in Replacing : Called(op)) /\ last'.err = "Ok" =>
              /\ last'.arg[1] \in DOMAIN faces
              /\ last'.arg[1] \notin DOMAIN faces'
              /\ Called("bridge_faces") => last'.arg[2] \notin DOMAIN faces']_vars

\* C31 witness: insert_face returned Ok with a new key after a face had been
\* removed: fewer faces are live than keys were handed out.
FaceKeysNeverReusedSeen ==
    /\ Committed
    /\ last.op = "insert_face"
    /\ last.val = <<nextFace>>
    /\ DOMAIN faces # {}
    /\ \E f \in 1..nextFace : f \notin DOMAIN faces /\ f < nextFace

\* ---- commit_with and the lifecycle of a Replace -------------------------
\* C32: once commit_with returned, the mutation was committed if and only
\* if the closure returned Ok; with the commit Ok it returned the committed
\* mutant, the reference to the slot that holds the mesh of the mutation,
\* paired with the value of the closure; when the closure returned an error
\* the mutation was aborted, the slot holds the replacement, and commit_with
\* returned the error of the closure converted.
CommitWithFollowsClosure ==
    handle.closure # <<>> =>
        /\ handle.end = "commit" <=> handle.closure[1] = "Ok"
        /\ handle.closure[1] = "Ok" /\ handle.ret # <<"Err">> =>
               /\ handle.output = <<"Ok", "slot", handle.closure[2]>>
               /\ slot = Core
        /\ handle.closure[1] = "Ok" /\ handle.ret = <<"Err">> =>
               handle.output[1] = "Err"
        /\ handle.closure[1] # "Ok" =>
               /\ handle.end = "abort"
               /\ handle.ret = <<>>
               /\ slot = started.replacement
               /\ handle.output = <<"Err", Into(handle.closure[2])>>

\* C32 witness: commit_with returned the error of a call of insert_face
\* that failed, converted, and the mutation was aborted.
CommitWithFollowsClosureSeen ==
    /\ handle.closure = <<"Err", "TopologyConflict">>
    /\ handle.output = <<"Err", Into("TopologyConflict")>>
    /\ handle.end = "abort"
    /\ last.op = "insert_face"

\* C33: in every lifecycle of a Replace the mutation field is Some while the
\* caller holds the Replace, so that deref, deref_mut and drain find it; it
\* is drained exactly once, by the commit, the abort or the drop that ends
\* the Replace; a Replace that was committed or aborted is forgotten, so
\* that its Drop does not run; and no drain finds None.
DrainedOnce ==
    /\ handle.end # "panic"
    /\ handle.end = "none" => handle.mutation = "Some" /\ handle.drains = 0
    /\ handle.end # "none" => handle.mutation = "None" /\ handle.drains = 1
    /\ handle.end \in {"commit", "abort"} => handle.scope = "forgotten"
    /\ handle.end = "drop" <=> handle.scope = "dropped"
    /\ handle.end = "none" <=> handle.scope = "held"

\* C33 witness: a Replace was dropped after calls that went through its
\* deref_mut, and was drained once.
DrainedOnceSeen ==
    /\ handle.end = "drop"
    /\ handle.drains = 1
    /\ last.op = "insert_face"
    /\ DOMAIN faces # {}

\* ---- links and edges ----------------------------------------------------
\* C34: in every Core of a session, committed or not, the next arc of a
\* live arc (x, y) that has one has source y and the previous arc of a live
\* arc (x, y) that has one has destination x.
VertexContinuity ==
    \A k \in LiveArcs :
        /\ arcs[k].next # NoArc => arcs[k].next[1] = k[2]
        /\ arcs[k].previous # NoArc => arcs[k].previous[2] = k[1]

\* C34 witness: a committed Core in which exterior repair linked a
\* boundary arc to a boundary arc of another face.
VertexContinuitySeen ==
    /\ Committed
    /\ \E k \in LiveArcs :
           /\ arcs[k].face = NoFace
           /\ arcs[k].next \in LiveArcs
           /\ arcs[arcs[k].next].face = NoFace
           /\ arcs[Opposite(k)].face # NoFace
           /\ arcs[Opposite(arcs[k].next)].face # NoFace
           /\ arcs[Opposite(k)].face # arcs[Opposite(arcs[k].next)].face

\* C35: a call of insert_face that returns Ok adds an arc pair and an edge
\* for exactly the ring pairs (vi, vi+1) whose arc did not exist before the
\* call: with m such pairs the arc store grows by 2m arcs and the edge store
\* by m edges, the new arcs are those pairs and their opposites, and every
\* arc and edge that existed before is still there under its key.
InsertAddsMissingEdges ==
    [][Called("insert_face") /\ last'.err = "Ok" =>
           LET ring == Perimeter(last'.arg)
               missing == {i \in 1..Len(ring) : ring[i] \notin DOMAIN arcs}
               m == Cardinality(missing)
           IN  /\ Cardinality(DOMAIN arcs') = Cardinality(DOMAIN arcs) + 2 * m
               /\ Cardinality(DOMAIN edges') = Cardinality(DOMAIN edges) + m
               /\ DOMAIN arcs' = DOMAIN arcs \cup {ring[i] : i \in missing}
                                             \cup {Opposite(ring[i]) : i \in missing}
               /\ DOMAIN edges' = DOMAIN edges \cup {EdgeKeyOf(ring[i]) : i \in missing}
               /\ \A e \in DOMAIN edges : edges'[e] = edges[e]
               /\ \A k \in DOMAIN arcs : arcs'[k].edge = arcs[k].edge]_vars

\* C36: on every Core and for every key sequence, the snapshot reports the
\* first failing check in the order duplicates, vertex existence, occupancy
\* or bisection: a sequence with a duplicated key yields TopologyMalformed
\* whatever else holds of it (a key that is not live, an occupied or
\* bisecting ring arc), a sequence of distinct keys with a key that is not
\* live yields TopologyNotFound whatever holds of its ring arcs, a sequence
\* of distinct live keys with an occupied or bisecting ring arc yields
\* TopologyConflict, and every other sequence yields a cache.
SnapshotCheckOrder ==
    \A keys \in AllKeySeqs :
        InsertSnapshot(Core, keys) =
            IF ~Distinct(keys) THEN "TopologyMalformed"
            ELSE IF ~AllLive(keys) THEN "TopologyNotFound"
            ELSE IF Occupied(keys) \/ Junction(keys) THEN "TopologyConflict"
            ELSE "Ok"

\* C36 witness: insert_face returned TopologyMalformed on a Core with a face,
\* where some key sequence has a duplicated key, a key that is not live and an
\* occupied ring arc, and some sequence of distinct keys has a key that is not
\* live and an occupied ring arc.
SnapshotCheckOrderSeen ==
    /\ last.op = "insert_face"
    /\ last.err = "TopologyMalformed"
    /\ DOMAIN faces # {}
    /\ \E keys \in KeySeqs :
           ~Distinct(keys) /\ ~AllLive(keys) /\ Occupied(keys)
    /\ \E keys \in KeySeqs :
           Distinct(keys) /\ ~AllLive(keys) /\ Occupied(keys)

\* C37: a Decompose yields the concatenation of f over its inputs, in input
\* order: at every point the items yielded so far followed by the items
\* still to come (the buffer, then f over the remaining inputs) are f over
\* all inputs, the item returned last is the last one yielded, and when next
\* returned None the input is exhausted, the buffer is empty and everything
\* was yielded.
DecomposeYieldsConcatenation ==
    /\ decompose.yielded \o Stream(decompose)
           = FlatMap(decompose.f, decompose.source)
    /\ decompose.ret[1] = "Some" =>
           decompose.ret[2] = decompose.yielded[Len(decompose.yielded)]
    /\ decompose.ret[1] = "None" =>
           /\ decompose.input = <<>>
           /\ decompose.output = <<>>
           /\ decompose.yielded = FlatMap(decompose.f, decompose.source)

\* C37 witness: next returned None after the Decompose yielded the items of
\* two inputs, skipping an input between them for which f yields nothing.
DecomposeYieldsConcatenationSeen ==
    /\ decompose.ret[1] = "None"
    /\ Len(decompose.source) >= 3
    /\ \E i, j, k \in 1..Len(decompose.source) :
           /\ i < j /\ j < k
           /\ Items(decompose.f, decompose.source[i]) # <<>>
           /\ Items(decompose.f, decompose.source[j]) = <<>>
           /\ Len(Items(decompose.f, decompose.source[k])) >= 2

\* C38: remap(n) on a Decompose in any state gives a Decompose whose stream
\* is, in order, f applied n more times to every item of the buffer (which f
\* made from an input by one application) followed by f applied n + 1 times
\* to every remaining input.
RemapAppliesAll ==
    [][decompose'.ret[1] = "remap" =>
           LET n == decompose'.ret[2]
           IN  Stream(decompose') =
                   Remap(n, decompose.output, decompose.f)
                       \o Remap(n + 1, decompose.input, decompose.f)]_vars

\* C39: rotate on a Triangle or a Quad is the cyclic left shift by n modulo
\* the arity for every n of isize: the primitive is its start shifted by the
\* sum of the rotations so far, rotate(n) then rotate(m) is rotate(n + m),
\* rotate(k * arity) changes nothing and rotate(-n) undoes rotate(n), for
\* all n, m, k whose sum, product and negation are values of isize; rotate
\* on a Line swaps the endpoints exactly when n is odd.
RotateIsCyclicShift ==
    LET p == polygon.shape
        arity == Len(p)
    IN  /\ p = Shift(polygon.start, polygon.total % arity)
        /\ arity \in {3, 4} =>
               /\ \A n \in Isize : Rotate(p, n) = Shift(p, n % arity)
               /\ \A n, m \in Isize :
                      n + m \in Isize => Rotate(Rotate(p, n), m) = Rotate(p, n + m)
               /\ \A k \in Isize : k * arity \in Isize => Rotate(p, k * arity) = p
               /\ \A n \in Isize : 0 - n \in Isize => Rotate(Rotate(p, n), 0 - n) = p
        /\ arity = 2 =>
               \A n \in Isize :
                   Rotate(p, n) = IF n % 2 = 1 THEN <<p[2], p[1]>> ELSE p

\* C39 witness: a Quad that is not as it was constructed after a rotation by
\* a negative odd n and one by a positive n.
RotateIsCyclicShiftSeen ==
    /\ Len(polygon.turns) = 2
    /\ Len(polygon.shape) = 4
    /\ polygon.turns[1] < 0
    /\ polygon.turns[1] % 2 = 1
    /\ polygon.turns[2] > 0
    /\ polygon.shape # polygon.start

\* ---- graph::view ---------------------------------------------------------
\* The payload types with a storage in the Core and the keys to bind: the
\* keys allocated so far and keys that were never allocated.
Payloads == {"Vertex", "Arc", "Edge", "Face"}

KeysOf(T) ==
    IF T = "Vertex" THEN VertexKeys
    ELSE IF T = "Face" THEN FaceKeys
    ELSE VertexKeys \X VertexKeys

\* AsStorage<T>::as_storage: the storage of the payload type T in the Core.
AsStorage(c, T) ==
    IF T = "Vertex" THEN [k \in 1..c.v |-> "Vertex"]
    ELSE IF T = "Arc" THEN c.a
    ELSE IF T = "Edge" THEN c.e
    ELSE c.f

\* Storage::contains_key
ContainsKey(storage, key) == key \in DOMAIN storage

\* View::bind_unchecked: the view, which does not look at the storage.
BindUnchecked(c, T, key) == [storage |-> c, payload |-> T, key |-> key]

\* View::bind without the look-up: a view of any key.
ViewBindAnyKey(c, T, key) == <<BindUnchecked(c, T, key)>>

\* View::bind: <<view>> for Some(view), <<>> for None.
ViewBind(c, T, key) ==
    IF ContainsKey(AsStorage(c, T), key) THEN <<BindUnchecked(c, T, key)>>
    ELSE <<>>

\* View::rebind: binds key in the storage that the view gives back.
ViewRebind(view, U, key) == ViewBind(view.storage, U, key)

\* Binding::rebind
BindingRebind(view, U, key) ==
    LET bound == ViewRebind(view, U, key)
    IN  IF bound = <<>> THEN Res(view.storage, "TopologyNotFound", <<>>)
        ELSE Res(view.storage, "Ok", bound)

\* The key is live in the Core.
Live(T, key) ==
    IF T = "Vertex" THEN HasVertex(Core, key)
    ELSE IF T = "Arc" THEN HasArc(Core, key)
    ELSE IF T = "Edge" THEN key \in DOMAIN edges
    ELSE HasFace(Core, key)

\* C40: on every Core, for every payload type and key, View::bind returns a
\* view of the key when the key is live and None when it is not, and
\* Binding::rebind from any view of a vertex or a face returns the view of
\* the key when the key is live and TopologyNotFound when it is not; neither
\* fails otherwise.
BindTotal ==
    \A T \in Payloads : \A key \in KeysOf(T) :
        /\ LET bound == ViewBind(Core, T, key)
           IN  /\ bound # <<>> <=> Live(T, key)
               /\ bound # <<>> => bound[1].key = key /\ bound[1].payload = T
        /\ \A S \in {"Vertex", "Face"} : \A from \in KeysOf(S) :
               LET view == ViewBind(Core, S, from)
               IN  view # <<>> =>
                       LET r == BindingRebind(view[1], T, key)
                       IN  /\ r.err = IF Live(T, key) THEN "Ok" ELSE "TopologyNotFound"
                           /\ Live(T, key) => r.val[1].key = key /\ r.val[1].payload = T

\* C40 witness: remove_face returned Ok and left a live face, so the face
\* store has a key that was live and is not any more, with arcs that have
\* lost their face.
BindTotalSeen ==
    /\ Committed
    /\ last.op = "remove_face"
    /\ DOMAIN faces # {}
    /\ \E f \in 1..nextFace : ~Live("Face", f)
    /\ \E f \in DOMAIN faces : Live("Face", f)
    /\ \E ab \in VertexKeys \X VertexKeys : ~Live("Arc", ab)

====
